---- MODULE Spec2Model ----
(***************************************************************************)
(* The QA / refinement pipeline of Backend/utils/refine.py: the five       *)
(* dataset refiners and refine_all, as operators over tables, driven by a  *)
(* state machine that calls them on bounded inputs.                        *)
(*                                                                         *)
(* A table (pandas DataFrame) is [cols, index, rows]: the set of column    *)
(* names, the index labels and the rows, each row a function from the      *)
(* column names to values.  A timestamp or index label is [kind, v]:       *)
(*   kind "str": a raw CSV string, spelling v of instant v \div 2          *)
(*               (v = -1: a string that is no date-time);                  *)
(*   kind "dt" : a timezone-naive date-time, instant v;                    *)
(*   kind "tz" : a date-time localized to local_tz (absolute instant v);   *)
(*   kind "utc": a UTC date-time, instant v;                               *)
(*   kind "int": a positional (RangeIndex) label v.                        *)
(* Instants count in units of ten minutes.  Measurements are integers.     *)
(***************************************************************************)
EXTENDS Integers, Sequences, FiniteSets, TLC

VARIABLES pc, call, ret, prev, dataframes, qa_report, pending, held,
          SESSION_STORE, upload, response, issued, running

\* The state of the web application (app.py).
appvars == <<SESSION_STORE, upload, response, issued, running>>

\* The state of the refiners and of refine_all (refine.py).
refinevars == <<pc, call, ret, prev, dataframes, qa_report, pending, held>>

vars == <<pc, call, ret, prev, dataframes, qa_report, pending, held,
          SESSION_STORE, upload, response, issued, running>>

-----------------------------------------------------------------------------
(* Bounds of the model *)

\* Longest table of the key family (timestamps, identifiers and payloads vary).
MaxRows == 3
\* Longest table of the value family (regular timestamps, measurements vary).
MaxRun == 5

-----------------------------------------------------------------------------
(* Python values *)

None == <<>>
Some(x) == <<x>>
IsNone(o) == o = <<>>
Get(o) == o[1]

Str(k) == [kind |-> "str", v |-> k]
Dt(n) == [kind |-> "dt", v |-> n]
Tz(n) == [kind |-> "tz", v |-> n]
Utc(n) == [kind |-> "utc", v |-> n]
Ix(i) == [kind |-> "int", v |-> i]

\* str(e): the message of a caught exception.
ErrMsg == "error"

Min(S) == CHOOSE x \in S : \A y \in S : x <= y
Max(S) == CHOOSE x \in S : \A y \in S : x >= y

\* The elements of s at the positions in keep, in their order in s.
Pick(s, keep) ==
    LET F[i \in 0..Len(s)] ==
            IF i = 0 THEN <<>>
            ELSE IF i \in keep THEN Append(F[i - 1], s[i]) ELSE F[i - 1]
    IN  F[Len(s)]

\* report[key] = val
Put(report, key, val) == (key :> val) @@ report

Has(report, key) == key \in DOMAIN report

EmptyReport == [k \in {} |-> 0]

-----------------------------------------------------------------------------
(* Tables *)

NRows(df) == Len(df.rows)

\* df[rows at keep]: a boolean-mask selection, index and rows together.
SelectRows(df, keep) ==
    [df EXCEPT !.index = Pick(df.index, keep), !.rows = Pick(df.rows, keep)]

\* df[name] = values (a new or replaced column).
SetCol(df, name, values) ==
    [df EXCEPT !.cols = df.cols \cup {name},
               !.rows = [i \in 1..Len(df.rows) |->
                            (name :> values[i]) @@ df.rows[i]]]

\* The values of column c, as a sequence in row order.
ColOf(df, c) == [i \in 1..Len(df.rows) |-> df.rows[i][c]]

\* int(series.sum()) of a boolean column.
CountTrue(flags) == Cardinality({i \in 1..Len(flags) : flags[i]})

\* The names convert_datetime_column derives from the time column's.
LocalizedCol(time_col) ==
    IF time_col = "Date_time" THEN "Date_time_localized" ELSE "time_localized"

UtcCol(time_col) ==
    IF time_col = "Date_time" THEN "Date_time_utc" ELSE "time_utc"

-----------------------------------------------------------------------------
(* The time zone of a call: whether local_tz names a zone, and its offset  *)
(* from UTC in instants.                                                   *)

TzBad == [valid |-> FALSE, off |-> 0]
TzGood == [valid |-> TRUE, off |-> 1]
TimeZones == {TzBad, TzGood}

-----------------------------------------------------------------------------
(* openoa.utils.qa and openoa.utils.filters, as refine.py uses them *)

\* dateutil's parse of one raw value; a date-time is left as it is.
Parseable(x) == x.kind # "str" \/ x.v >= 0

Parse(x) == IF x.kind = "str" THEN Dt(x.v \div 2) ELSE Dt(x.v)

\* str(timestamp): the canonical spelling of an instant.
Format(x) == Str(2 * x.v)

\* qa.convert_datetime_column raises: no such column, a value that is no
\* date-time, or a time zone that does not exist.
ConvertRaises(df, time_col, tz) ==
    \/ time_col \notin df.cols
    \/ ~tz.valid
    \/ \E i \in 1..NRows(df) : ~Parseable(df.rows[i][time_col])

\* qa.convert_datetime_column(df, time_col, local_tz, tz_aware=False): the time
\* column parsed, the localized and UTC columns added, the UTC column the index.
ConvertDatetimeColumn(df, time_col, tz) ==
    LET n == NRows(df)
        parsed == [i \in 1..n |-> Parse(df.rows[i][time_col])]
        local == [i \in 1..n |-> Tz(parsed[i].v - tz.off)]
        utc == [i \in 1..n |-> Utc(parsed[i].v - tz.off)]
        d1 == SetCol(df, time_col, parsed)
        d2 == SetCol(d1, LocalizedCol(time_col), local)
        d3 == SetCol(d2, UtcCol(time_col), utc)
    IN  [d3 EXCEPT !.index = utc]

\* df.duplicated(subset=[id_col, col]): the positions whose key an earlier row has.
DuplicatedOn(df, id_col, col) ==
    {i \in 1..NRows(df) :
        \E j \in 1..(i - 1) :
            /\ df.rows[j][id_col] = df.rows[i][id_col]
            /\ df.rows[j][col] = df.rows[i][col]}

\* qa.duplicate_time_identification raises: a key column is missing.
DupIdentRaises(df, time_col, id_col) ==
    time_col \notin df.cols \/ id_col \notin df.cols

\* qa.duplicate_time_identification: the duplicated timestamps in the original
\* and (when the table is converted) the UTC column; None without one.
DuplicateTimeIdentification(df, time_col, id_col) ==
    [orig |-> Pick(ColOf(df, time_col), DuplicatedOn(df, id_col, time_col)),
     utc |-> IF UtcCol(time_col) \in df.cols
             THEN Some(Pick(ColOf(df, UtcCol(time_col)),
                            DuplicatedOn(df, id_col, UtcCol(time_col))))
             ELSE None]

\* The instant a value of a time column stands for.
InstantOf(x) == IF x.kind = "str" THEN x.v \div 2 ELSE x.v

\* The instants of the grid from the column's first to its last one, every
\* freq instants, that no row carries, ascending.
MissingInstants(values, freq) ==
    LET have == {InstantOf(values[i]) : i \in 1..Len(values)}
        lo == Min(have)
        hi == Max(have)
        grid == {t \in lo..hi : (t - lo) % freq = 0}
        miss == grid \ have
        Asc[k \in 0..(hi - lo + 1)] ==
            IF k = 0 THEN <<>>
            ELSE IF (lo + k - 1) \in miss THEN Append(Asc[k - 1], lo + k - 1)
                 ELSE Asc[k - 1]
    IN  IF have = {} THEN <<>> ELSE Asc[hi - lo + 1]

\* qa.gap_time_identification raises: no time column, or a value that is no
\* date-time.
GapIdentRaises(df, time_col) ==
    \/ time_col \notin df.cols
    \/ \E i \in 1..NRows(df) : ~Parseable(df.rows[i][time_col])

\* qa.gap_time_identification: the missing timestamps of the original and of
\* the UTC column; None without a UTC column.
GapTimeIdentification(df, time_col, freq) ==
    LET orig == MissingInstants(ColOf(df, time_col), freq)
        utc == MissingInstants(ColOf(df, UtcCol(time_col)), freq)
    IN  [orig |-> [k \in 1..Len(orig) |-> Dt(orig[k])],
         utc |-> IF UtcCol(time_col) \in df.cols
                 THEN Some([k \in 1..Len(utc) |-> Utc(utc[k])])
                 ELSE None]

\* filters.range_flag(data, lower, upper): True outside [lower, upper].
RangeFlag(data, lower, upper) ==
    [i \in 1..Len(data) |-> data[i] < lower \/ data[i] > upper]

\* filters.unresponsive_flag(data, threshold): True for every member of a run
\* of at least threshold consecutive identical values.
UnresponsiveFlag(data, threshold) ==
    LET n == Len(data)
        \* a window of threshold identical values ends at position e
        Frozen(e) == /\ e - threshold + 1 >= 1
                     /\ \A k \in (e - threshold + 1)..e : data[k] = data[e]
    IN  [i \in 1..n |-> \E e \in i..Min({n, i + threshold - 1}) : Frozen(e)]

-----------------------------------------------------------------------------
(* refine.py *)

\* The steps whose library call a call's environment makes raise.
F_dup == "duplicate_check"
F_gap == "gap_check"

\* A faulty KeepLastOnIndex: a table without the time column is returned as
\* it is.
KeepLastOnIndexSkipped(df, time_col) == df

\* _drop_duplicates(df, time_col): keep the last row of each timestamp; of each
\* index label when the table has no such column.
KeepLastOnIndex(df, time_col) ==
    SelectRows(df, {i \in 1..NRows(df) :
                       ~\E j \in (i + 1)..NRows(df) : df.index[j] = df.index[i]})

\* A faulty DropDuplicates: the first row of each timestamp is kept.
DropDuplicatesKeepFirst(df, time_col) ==
    IF time_col \in df.cols
    THEN SelectRows(df, {i \in 1..NRows(df) :
            ~\E j \in 1..(i - 1) :
                df.rows[j][time_col] = df.rows[i][time_col]})
    ELSE KeepLastOnIndex(df, time_col)

DropDuplicates(df, time_col) ==
    IF time_col \in df.cols
    THEN SelectRows(df, {i \in 1..NRows(df) :
            ~\E j \in (i + 1)..NRows(df) :
                df.rows[j][time_col] = df.rows[i][time_col]})
    ELSE KeepLastOnIndex(df, time_col)

\* A refiner's working state: its locals df and report (and, in refine_scada,
\* flag_cols).
Work(df, report) == [df |-> df, report |-> report]

\* A faulty ConvertStep: the except branch records the failure without its
\* message.
ConvertStepNoMessage(w, time_col, tz) ==
    IF ConvertRaises(w.df, time_col, tz)
    THEN [w EXCEPT !.report = Put(@, "datetime_converted", FALSE)]
    ELSE [w EXCEPT !.df = ConvertDatetimeColumn(@, time_col, tz),
                   !.report = Put(@, "datetime_converted", TRUE)]

\* try: df = qa.convert_datetime_column(...) / except: datetime_error
ConvertStep(w, time_col, tz) ==
    IF ConvertRaises(w.df, time_col, tz)
    THEN [w EXCEPT !.report = Put(Put(@, "datetime_converted", FALSE),
                                  "datetime_error", ErrMsg)]
    ELSE [w EXCEPT !.df = ConvertDatetimeColumn(@, time_col, tz),
                   !.report = Put(@, "datetime_converted", TRUE)]

\* try: qa.duplicate_time_identification(...) / except: duplicate_check_error
DupIdentStep(w, time_col, id_col, faults) ==
    IF F_dup \in faults \/ DupIdentRaises(w.df, time_col, id_col)
    THEN [w EXCEPT !.report = Put(@, "duplicate_check_error", ErrMsg)]
    ELSE LET d == DuplicateTimeIdentification(w.df, time_col, id_col)
         IN  [w EXCEPT !.report =
                  Put(Put(@, "duplicate_original_count", Len(d.orig)),
                      "duplicate_utc_count",
                      IF IsNone(d.utc) THEN 0 ELSE Len(Get(d.utc)))]

\* A faulty DropStep: before is taken after the duplicates were dropped.
DropStepLateBefore(w, time_col) ==
    LET df == DropDuplicates(w.df, time_col)
        before == NRows(df)
    IN  [w EXCEPT !.df = df,
                  !.report = Put(@, "rows_dropped_duplicates", before - NRows(df))]

\* before = len(df); df = _drop_duplicates(df, time_col); rows_dropped_duplicates
DropStep(w, time_col) ==
    LET before == NRows(w.df)
        df == DropDuplicates(w.df, time_col)
    IN  [w EXCEPT !.df = df,
                  !.report = Put(@, "rows_dropped_duplicates", before - NRows(df))]

\* A faulty GapStep: the except branch swallows the failure.
GapStepSilent(w, time_col, freq, withList, faults) ==
    IF F_gap \in faults \/ GapIdentRaises(w.df, time_col)
    THEN w
    ELSE LET g == GapTimeIdentification(w.df, time_col, freq)
             r1 == Put(Put(w.report, "time_gaps_original_count", Len(g.orig)),
                       "time_gaps_utc_count",
                       IF IsNone(g.utc) THEN 0 ELSE Len(Get(g.utc)))
             lst == [k \in 1..Len(Get(g.utc)) |-> Format(Get(g.utc)[k])]
         IN  [w EXCEPT !.report =
                  IF withList /\ ~IsNone(g.utc) /\ Len(Get(g.utc)) > 0
                  THEN Put(r1, "time_gap_timestamps_utc", lst)
                  ELSE r1]

\* try: qa.gap_time_identification(...) / except: gap_check_error.
\* withList: refine_scada also records the missing UTC timestamps.
GapStep(w, time_col, freq, withList, faults) ==
    IF F_gap \in faults \/ GapIdentRaises(w.df, time_col)
    THEN [w EXCEPT !.report = Put(@, "gap_check_error", ErrMsg)]
    ELSE LET g == GapTimeIdentification(w.df, time_col, freq)
             r1 == Put(Put(w.report, "time_gaps_original_count", Len(g.orig)),
                       "time_gaps_utc_count",
                       IF IsNone(g.utc) THEN 0 ELSE Len(Get(g.utc)))
             lst == [k \in 1..Len(Get(g.utc)) |-> Format(Get(g.utc)[k])]
         IN  [w EXCEPT !.report =
                  IF withList /\ ~IsNone(g.utc) /\ Len(Get(g.utc)) > 0
                  THEN Put(r1, "time_gap_timestamps_utc", lst)
                  ELSE r1]

\* A faulty RangeFlagStep: the bounds are passed in the wrong order.
RangeFlagStepBoundsSwapped(w, col, lower, upper, fname, countKey, errKey, faults) ==
    IF col \notin w.df.cols THEN w
    ELSE IF fname \in faults
    THEN [w EXCEPT !.report = Put(@, errKey, ErrMsg)]
    ELSE LET df == SetCol(w.df, fname, RangeFlag(ColOf(w.df, col), upper, lower))
         IN  [w EXCEPT !.df = df,
                       !.report = Put(@, countKey, CountTrue(ColOf(df, fname)))]

\* A faulty RangeFlagStep: the except branch starts the report afresh.
RangeFlagStepLosesReport(w, col, lower, upper, fname, countKey, errKey, faults) ==
    IF col \notin w.df.cols THEN w
    ELSE IF fname \in faults
    THEN [w EXCEPT !.report = Put(EmptyReport, errKey, ErrMsg)]
    ELSE LET df == SetCol(w.df, fname, RangeFlag(ColOf(w.df, col), lower, upper))
         IN  [w EXCEPT !.df = df,
                       !.report = Put(@, countKey, CountTrue(ColOf(df, fname)))]

\* if col in df.columns: try: df[fname] = range_flag(...); report[count] = sum
\* / except: report[error].  A missing column is skipped.
RangeFlagStep(w, col, lower, upper, fname, countKey, errKey, faults) ==
    IF col \notin w.df.cols THEN w
    ELSE IF fname \in faults
    THEN [w EXCEPT !.report = Put(@, errKey, ErrMsg)]
    ELSE LET df == SetCol(w.df, fname, RangeFlag(ColOf(w.df, col), lower, upper))
         IN  [w EXCEPT !.df = df,
                       !.report = Put(@, countKey, CountTrue(ColOf(df, fname)))]

\* A faulty UnresponsiveStep: the threshold is taken one too high.
UnresponsiveStepLongerRun(w, col, threshold, fname, countKey, errKey, faults) ==
    IF col \notin w.df.cols THEN w
    ELSE IF fname \in faults
    THEN [w EXCEPT !.report = Put(@, errKey, ErrMsg)]
    ELSE LET df == SetCol(w.df, fname,
                          UnresponsiveFlag(ColOf(w.df, col), threshold + 1))
         IN  [w EXCEPT !.df = df,
                       !.report = Put(@, countKey, CountTrue(ColOf(df, fname)))]

\* if col in df.columns: try: df[fname] = unresponsive_flag(...); report[count]
\* / except: report[error].
UnresponsiveStep(w, col, threshold, fname, countKey, errKey, faults) ==
    IF col \notin w.df.cols THEN w
    ELSE IF fname \in faults
    THEN [w EXCEPT !.report = Put(@, errKey, ErrMsg)]
    ELSE LET df == SetCol(w.df, fname, UnresponsiveFlag(ColOf(w.df, col), threshold))
         IN  [w EXCEPT !.df = df,
                       !.report = Put(@, countKey, CountTrue(ColOf(df, fname)))]

\* A faulty AppendFlag: the name is appended outside the try block, whether or
\* not the column was there and the check succeeded.
AppendFlagAlways(w, fname, countKey) == [w EXCEPT !.flag_cols = Append(@, fname)]

\* flag_cols.append(fname): the last statement of a flag's try block, reached
\* when the count before it was recorded.
AppendFlag(w, fname, countKey) ==
    IF Has(w.report, countKey)
    THEN [w EXCEPT !.flag_cols = Append(@, fname)]
    ELSE w

\* A faulty Return: the rows are counted as they were before the duplicates
\* were dropped.
ReturnCountBeforeDrop(w) ==
    [df |-> w.df,
     report |-> Put(w.report, "final_row_count",
                    IF Has(w.report, "rows_dropped_duplicates")
                    THEN NRows(w.df) + w.report["rows_dropped_duplicates"]
                    ELSE NRows(w.df))]

\* report["final_row_count"] = len(df); return df, report
Return(w) ==
    [df |-> w.df, report |-> Put(w.report, "final_row_count", NRows(w.df))]

(* Defaults of refine_scada *)
ScadaFreq == 1
PowerLower == -20
PowerUpper == 2200
WindspeedLower == 0
WindspeedUpper == 50
TempLower == -40
TempUpper == 50
UnresponsiveThreshold == 3

\* A faulty ScadaTimeSteps: the duplicates are dropped before the timestamps
\* are converted.
ScadaTimeStepsDropFirst(df, tz, faults) ==
    GapStep(
        ConvertStep(
            DropStep(
                DupIdentStep([df |-> df, report |-> EmptyReport, flag_cols |-> <<>>],
                             "Date_time", "Wind_turbine_name", faults),
                "Date_time"),
            "Date_time", tz),
        "Date_time", ScadaFreq, TRUE, faults)

\* refine_scada, steps 1 to 3: the datetime conversion, the duplicates, the gaps.
ScadaTimeSteps(df, tz, faults) ==
    GapStep(
        DropStep(
            DupIdentStep(
                ConvertStep([df |-> df, report |-> EmptyReport, flag_cols |-> <<>>],
                            "Date_time", tz),
                "Date_time", "Wind_turbine_name", faults),
            "Date_time"),
        "Date_time", ScadaFreq, TRUE, faults)

\* refine_scada, step 4: the range flags of power, wind speed and temperature.
ScadaPowerRange(w, faults) ==
    AppendFlag(
        RangeFlagStep(w, "P_avg", PowerLower, PowerUpper, "flag_power_range",
            "range_flag_flag_power_range_count",
            "range_flag_flag_power_range_error", faults),
        "flag_power_range", "range_flag_flag_power_range_count")

ScadaWindspeedRange(w, faults) ==
    AppendFlag(
        RangeFlagStep(w, "Ws_avg", WindspeedLower, WindspeedUpper,
            "flag_windspeed_range", "range_flag_flag_windspeed_range_count",
            "range_flag_flag_windspeed_range_error", faults),
        "flag_windspeed_range", "range_flag_flag_windspeed_range_count")

ScadaTempRange(w, faults) ==
    AppendFlag(
        RangeFlagStep(w, "Ot_avg", TempLower, TempUpper, "flag_temp_range",
            "range_flag_flag_temp_range_count",
            "range_flag_flag_temp_range_error", faults),
        "flag_temp_range", "range_flag_flag_temp_range_count")

\* refine_scada, step 5: the unresponsive flags of power and wind speed.
ScadaPowerUnresponsive(w, faults) ==
    AppendFlag(
        UnresponsiveStep(w, "P_avg", UnresponsiveThreshold,
            "flag_power_unresponsive",
            "unresponsive_flag_power_unresponsive_count",
            "unresponsive_flag_power_unresponsive_error", faults),
        "flag_power_unresponsive", "unresponsive_flag_power_unresponsive_count")

ScadaWindspeedUnresponsive(w, faults) ==
    AppendFlag(
        UnresponsiveStep(w, "Ws_avg", UnresponsiveThreshold,
            "flag_windspeed_unresponsive",
            "unresponsive_flag_windspeed_unresponsive_count",
            "unresponsive_flag_windspeed_unresponsive_error", faults),
        "flag_windspeed_unresponsive",
        "unresponsive_flag_windspeed_unresponsive_count")

\* report["flag_columns_added"] = flag_cols
ScadaFlagColumns(w) == [w EXCEPT !.report = Put(@, "flag_columns_added", w.flag_cols)]

\* A faulty RefineScada: the flags are computed on the converted table before
\* the duplicates are identified and dropped and the gaps detected.
RefineScadaFlagsFirst(df, tz, faults) ==
    Return(ScadaFlagColumns(
        GapStep(
            DropStep(
                DupIdentStep(
                    ScadaWindspeedUnresponsive(
                        ScadaPowerUnresponsive(
                            ScadaTempRange(
                                ScadaWindspeedRange(
                                    ScadaPowerRange(
                                        ConvertStep([df |-> df,
                                                     report |-> EmptyReport,
                                                     flag_cols |-> <<>>],
                                                    "Date_time", tz),
                                        faults),
                                    faults),
                                faults),
                            faults),
                        faults),
                    "Date_time", "Wind_turbine_name", faults),
                "Date_time"),
            "Date_time", ScadaFreq, TRUE, faults)))

\* refine_scada(df, local_tz, time_col, id_col, power_col, windspeed_col,
\*              temp_col) with refine_all's column names.
RefineScada(df, tz, faults) ==
    Return(ScadaFlagColumns(
        ScadaWindspeedUnresponsive(
            ScadaPowerUnresponsive(
                ScadaTempRange(
                    ScadaWindspeedRange(
                        ScadaPowerRange(ScadaTimeSteps(df, tz, faults), faults),
                        faults),
                    faults),
                faults),
            faults)))

(* Defaults of refine_meter *)
MeterFreq == 1
EnergyLower == -100
EnergyUpper == 10000000

\* refine_meter: the datetime conversion, the duplicates, the gaps.
MeterTimeSteps(df, tz, faults) ==
    GapStep(
        DropStep(
            DupIdentStep(ConvertStep(Work(df, EmptyReport), "time", tz),
                         "time", "time", faults),
            "time"),
        "time", MeterFreq, FALSE, faults)

\* refine_meter(df, local_tz) with the default column names.
RefineMeter(df, tz, faults) ==
    Return(
        RangeFlagStep(MeterTimeSteps(df, tz, faults), "MMTR_SupWh", EnergyLower,
            EnergyUpper, "flag_energy_range", "range_flag_energy_count",
            "range_flag_energy_error", faults))

(* Defaults of refine_curtail *)
CurtailFreq == 1
AvailLower == 0
AvailUpper == 10000000
CurtailLower == 0
CurtailUpper == 10000000

\* refine_curtail: the datetime conversion, the duplicates, the gaps.
CurtailTimeSteps(df, tz, faults) ==
    GapStep(
        DropStep(
            DupIdentStep(ConvertStep(Work(df, EmptyReport), "time", tz),
                         "time", "time", faults),
            "time"),
        "time", CurtailFreq, FALSE, faults)

\* refine_curtail(df, local_tz) with the default column names.
RefineCurtail(df, tz, faults) ==
    Return(
        RangeFlagStep(
            RangeFlagStep(CurtailTimeSteps(df, tz, faults), "IAVL_DnWh",
                AvailLower, AvailUpper, "flag_availability_range",
                "flag_availability_range_count",
                "flag_availability_range_error", faults),
            "IAVL_ExtPwrDnWh", CurtailLower, CurtailUpper,
            "flag_curtailment_range", "flag_curtailment_range_count",
            "flag_curtailment_range_error", faults))

(* Defaults of refine_asset *)
LatLower == -90
LatUpper == 90
LonLower == -180
LonUpper == 180
RatedPowerLower == 0
RatedPowerUpper == 10000000

\* A missing asset identifier (NaN) in the asset_id column.
NaN == "nan"

\* if "asset_id" in df.columns: report["missing_asset_id_count"]
MissingIdStep(w) ==
    IF "asset_id" \notin w.df.cols THEN w
    ELSE [w EXCEPT !.report = Put(@, "missing_asset_id_count",
              Cardinality({i \in 1..NRows(w.df) : w.df.rows[i]["asset_id"] = NaN}))]

\* refine_asset(df)
RefineAsset(df, faults) ==
    Return(
        RangeFlagStep(
            RangeFlagStep(
                RangeFlagStep(MissingIdStep(Work(df, EmptyReport)), "latitude",
                    LatLower, LatUpper, "flag_latitude_range",
                    "flag_latitude_range_count", "flag_latitude_range_error",
                    faults),
                "longitude", LonLower, LonUpper, "flag_longitude_range",
                "flag_longitude_range_count", "flag_longitude_range_error",
                faults),
            "rated_power", RatedPowerLower, RatedPowerUpper,
            "flag_rated_power_range", "flag_rated_power_range_count",
            "flag_rated_power_range_error", faults))

(* Defaults of refine_reanalysis *)
ReanalysisFreq == 6
ReWindspeedLower == 0
ReWindspeedUpper == 80
WinddirLower == 0
WinddirUpper == 360
ReTempLower == 200
ReTempUpper == 340

\* refine_reanalysis: the datetime conversion, the duplicates, the gaps.
ReanalysisTimeSteps(df, tz, faults) ==
    GapStep(
        DropStep(
            DupIdentStep(ConvertStep(Work(df, EmptyReport), "time", tz),
                         "time", "time", faults),
            "time"),
        "time", ReanalysisFreq, FALSE, faults)

\* refine_reanalysis: the range flags of wind speed, direction and temperature.
ReanalysisRangeFlags(w, faults) ==
    RangeFlagStep(
        RangeFlagStep(
            RangeFlagStep(w, "WMETR_HorWdSpd", ReWindspeedLower,
                ReWindspeedUpper, "flag_windspeed_range",
                "flag_windspeed_range_count", "flag_windspeed_range_error",
                faults),
            "WMETR_HorWdDir", WinddirLower, WinddirUpper, "flag_winddir_range",
            "flag_winddir_range_count", "flag_winddir_range_error", faults),
        "WMETR_EnvTmp", ReTempLower, ReTempUpper, "flag_temp_range",
        "flag_temp_range_count", "flag_temp_range_error", faults)

\* report["product"] = product_name
ProductStep(w, product_name) == [w EXCEPT !.report = Put(@, "product", product_name)]

\* refine_reanalysis(df, product_name, local_tz) with the default column names.
RefineReanalysis(df, product_name, tz, faults) ==
    Return(ProductStep(
        UnresponsiveStep(
            ReanalysisRangeFlags(ReanalysisTimeSteps(df, tz, faults), faults),
            "WMETR_HorWdSpd", UnresponsiveThreshold,
            "flag_windspeed_unresponsive", "unresponsive_windspeed_count",
            "unresponsive_windspeed_error", faults),
        product_name))

-----------------------------------------------------------------------------
(* The inputs of the calls: bounded families of tables.                    *)
(*   key family   : timestamps (two spellings of instant 0, one of instant *)
(*                  1) and identifiers vary, each row has its own payload; *)
(*   value family : regular timestamps, the measurements run over the      *)
(*                  bounds of the range checks and repeat;                 *)
(*   fault family : fixed tables, with any one column missing and any set  *)
(*                  of library calls raising.                              *)

\* pd.read_csv: a table with the positional index 0, 1, ...
MkTable(cols, rows) ==
    [cols |-> cols, index |-> [i \in 1..Len(rows) |-> Ix(i - 1)], rows |-> rows]

SeqsUpTo(S, n) == UNION {[1..k -> S] : k \in 0..n}

\* The table without the columns in gone.
DropCols(df, gone) ==
    [df EXCEPT !.cols = df.cols \ gone,
               !.rows = [i \in 1..Len(df.rows) |->
                            [c \in df.cols \ gone |-> df.rows[i][c]]]]

NoneOrOne(S) == {{}} \cup {{c} : c \in S}

KeyTimes == {Str(0), Str(1), Str(2)}
TurbineIds == {"T1", "T2"}

\* The raw timestamp of row i of a regular table: every freq instants.
RegularTime(i, freq) == Str(2 * freq * (i - 1))

ScadaCols == {"Date_time", "Wind_turbine_name", "P_avg", "Ws_avg", "Ot_avg"}

ScadaRow(t, id, p, ws, ot) ==
    [Date_time |-> t, Wind_turbine_name |-> id, P_avg |-> p, Ws_avg |-> ws,
     Ot_avg |-> ot]

\* (power, wind speed, temperature): below, at and above the bounds; the third
\* and the fourth share their wind speed and differ in power.
ScadaProfiles ==
    {<<PowerLower - 1, WindspeedLower - 1, TempLower - 1>>,
     <<PowerLower, WindspeedLower, TempLower>>,
     <<PowerUpper, WindspeedUpper + 1, TempUpper>>,
     <<PowerUpper + 1, WindspeedUpper + 1, TempUpper + 1>>}

ScadaKeyTables ==
    {MkTable(ScadaCols,
             [i \in 1..Len(k) |-> ScadaRow(k[i][1], k[i][2], 100 + i, 5, 10)]) :
        k \in SeqsUpTo(KeyTimes \X TurbineIds, MaxRows)}

ScadaValueTables ==
    {MkTable(ScadaCols,
             [i \in 1..Len(q) |->
                 ScadaRow(RegularTime(i, ScadaFreq), "T1", q[i][1], q[i][2], q[i][3])]) :
        q \in SeqsUpTo(ScadaProfiles, MaxRun)}

\* Instants 0, 0, 3 (a duplicate, two missing timestamps); and the same with a
\* value that is no date-time.
ScadaFaultTables ==
    {MkTable(ScadaCols,
             <<ScadaRow(Str(0), "T1", PowerLower - 1, WindspeedUpper, TempUpper),
               ScadaRow(t, "T1", PowerUpper, WindspeedUpper + 1, TempUpper),
               ScadaRow(Str(6), "T2", PowerUpper, WindspeedUpper + 1, TempUpper + 1)>>) :
        t \in {Str(1), Str(-1)}}

ScadaFaults ==
    {F_dup, F_gap, "flag_power_range", "flag_windspeed_range", "flag_temp_range",
     "flag_power_unresponsive", "flag_windspeed_unresponsive"}

Input(df, tz, faults) == [df |-> df, tz |-> tz, faults |-> faults]

\* Two rows of turbine T1 at 09:00 (instant 0), power 100 then 105, and its
\* next row at 10:00 (instant 6, at the 10-minute frequency).
ScadaScenario ==
    MkTable(ScadaCols,
            <<ScadaRow(Str(0), "T1", 100, 5, 10), ScadaRow(Str(0), "T1", 105, 5, 10),
              ScadaRow(Str(12), "T1", 110, 6, 10)>>)

ScadaInputs ==
    {Input(df, tz, {}) : df \in ScadaKeyTables \cup {ScadaScenario}, tz \in TimeZones}
    \cup {Input(df, TzGood, {}) : df \in ScadaValueTables}
    \cup {Input(DropCols(df, gone), tz, faults) :
            df \in ScadaFaultTables, gone \in NoneOrOne(ScadaCols),
            tz \in TimeZones, faults \in SUBSET ScadaFaults}

MeterCols == {"time", "MMTR_SupWh"}

MeterRow(t, e) == [time |-> t, MMTR_SupWh |-> e]

MeterValues == {EnergyLower - 1, EnergyLower, EnergyUpper, EnergyUpper + 1}

MeterKeyTables ==
    {MkTable(MeterCols, [i \in 1..Len(k) |-> MeterRow(k[i], 100 + i)]) :
        k \in SeqsUpTo(KeyTimes, MaxRows)}

MeterValueTables ==
    {MkTable(MeterCols,
             [i \in 1..Len(q) |-> MeterRow(RegularTime(i, MeterFreq), q[i])]) :
        q \in SeqsUpTo(MeterValues, MaxRows)}

MeterFaultTables ==
    {MkTable(MeterCols,
             <<MeterRow(Str(0), EnergyLower - 1), MeterRow(t, EnergyUpper),
               MeterRow(Str(6), EnergyUpper + 1)>>) :
        t \in {Str(1), Str(-1)}}

MeterFaults == {F_dup, F_gap, "flag_energy_range"}

\* Meter tables whose index repeats a label, as a table concatenated from two
\* files has: with the time column and without it.
MeterIndexTables ==
    LET df == [MkTable(MeterCols,
                       [i \in 1..3 |-> MeterRow(RegularTime(i, MeterFreq), 100 + i)])
                  EXCEPT !.index = <<Ix(0), Ix(1), Ix(0)>>]
    IN  {df, DropCols(df, {"time"})}

MeterInputs ==
    {Input(df, tz, {}) : df \in MeterKeyTables, tz \in TimeZones}
    \cup {Input(df, TzGood, {}) : df \in MeterValueTables \cup MeterIndexTables}
    \cup {Input(DropCols(df, gone), tz, faults) :
            df \in MeterFaultTables, gone \in NoneOrOne(MeterCols),
            tz \in TimeZones, faults \in SUBSET MeterFaults}

CurtailCols == {"time", "IAVL_DnWh", "IAVL_ExtPwrDnWh"}

CurtailRow(t, a, c) == [time |-> t, IAVL_DnWh |-> a, IAVL_ExtPwrDnWh |-> c]

\* (availability, curtailment)
CurtailProfiles ==
    {<<AvailLower - 1, CurtailLower - 1>>, <<AvailLower, CurtailLower>>,
     <<AvailUpper, CurtailUpper>>, <<AvailUpper + 1, CurtailUpper + 1>>,
     <<AvailUpper, CurtailUpper + 1>>}

CurtailKeyTables ==
    {MkTable(CurtailCols, [i \in 1..Len(k) |-> CurtailRow(k[i], 100 + i, 5)]) :
        k \in SeqsUpTo(KeyTimes, MaxRows)}

CurtailValueTables ==
    {MkTable(CurtailCols,
             [i \in 1..Len(q) |->
                 CurtailRow(RegularTime(i, CurtailFreq), q[i][1], q[i][2])]) :
        q \in SeqsUpTo(CurtailProfiles, MaxRows)}

CurtailFaultTables ==
    {MkTable(CurtailCols,
             <<CurtailRow(Str(0), AvailLower - 1, CurtailUpper),
               CurtailRow(t, AvailUpper, CurtailUpper + 1),
               CurtailRow(Str(6), AvailUpper, CurtailUpper + 1)>>) :
        t \in {Str(1), Str(-1)}}

CurtailFaults ==
    {F_dup, F_gap, "flag_availability_range", "flag_curtailment_range"}

CurtailInputs ==
    {Input(df, tz, {}) : df \in CurtailKeyTables, tz \in TimeZones}
    \cup {Input(df, TzGood, {}) : df \in CurtailValueTables}
    \cup {Input(DropCols(df, gone), tz, faults) :
            df \in CurtailFaultTables, gone \in NoneOrOne(CurtailCols),
            tz \in TimeZones, faults \in SUBSET CurtailFaults}

AssetCols == {"asset_id", "latitude", "longitude", "rated_power"}

AssetRow(id, lat, lon, rp) ==
    [asset_id |-> id, latitude |-> lat, longitude |-> lon, rated_power |-> rp]

\* (asset id, latitude, longitude, rated power)
AssetProfiles ==
    {<<"T1", LatLower - 1, LonLower - 1, RatedPowerLower - 1>>,
     <<"T2", LatLower, LonLower, RatedPowerLower>>,
     <<"T1", LatUpper, LonUpper, RatedPowerUpper>>,
     <<"T2", LatUpper + 1, LonUpper + 1, RatedPowerUpper + 1>>,
     <<NaN, LatUpper, LonUpper + 1, RatedPowerUpper>>,
     <<NaN, LatUpper + 1, LonUpper, RatedPowerUpper + 1>>}

AssetValueTables ==
    {MkTable(AssetCols,
             [i \in 1..Len(q) |-> AssetRow(q[i][1], q[i][2], q[i][3], q[i][4])]) :
        q \in SeqsUpTo(AssetProfiles, MaxRows)}

AssetFaultTables ==
    {MkTable(AssetCols,
             <<AssetRow("T1", LatLower - 1, LonUpper, RatedPowerUpper + 1),
               AssetRow(NaN, LatUpper, LonUpper + 1, RatedPowerUpper)>>)}

AssetFaults ==
    {"flag_latitude_range", "flag_longitude_range", "flag_rated_power_range"}

\* refine_asset takes no time zone.
AssetInputs ==
    {Input(df, TzGood, {}) : df \in AssetValueTables}
    \cup {Input(DropCols(df, gone), TzGood, faults) :
            df \in AssetFaultTables, gone \in NoneOrOne(AssetCols),
            faults \in SUBSET AssetFaults}

ReanalysisCols == {"time", "WMETR_HorWdSpd", "WMETR_HorWdDir", "WMETR_EnvTmp"}

ReanalysisRow(t, ws, wd, tmp) ==
    [time |-> t, WMETR_HorWdSpd |-> ws, WMETR_HorWdDir |-> wd, WMETR_EnvTmp |-> tmp]

\* (wind speed, wind direction, temperature)
ReanalysisProfiles ==
    {<<ReWindspeedLower - 1, WinddirLower - 1, ReTempLower - 1>>,
     <<ReWindspeedLower, WinddirLower, ReTempLower>>,
     <<ReWindspeedUpper, WinddirUpper + 1, ReTempUpper>>,
     <<ReWindspeedUpper + 1, WinddirUpper + 1, ReTempUpper + 1>>}

ProductNames == {"era5", "merra2"}

ReanalysisKeyTables ==
    {MkTable(ReanalysisCols,
             [i \in 1..Len(k) |-> ReanalysisRow(k[i], 100 + i, 5, 280)]) :
        k \in SeqsUpTo(KeyTimes, MaxRows)}

ReanalysisValueTables ==
    {MkTable(ReanalysisCols,
             [i \in 1..Len(q) |->
                 ReanalysisRow(RegularTime(i, ReanalysisFreq), q[i][1], q[i][2],
                               q[i][3])]) :
        q \in SeqsUpTo(ReanalysisProfiles, MaxRun)}

\* Instants 0, 0, 18: a duplicate, two hours missing.
ReanalysisFaultTables ==
    {MkTable(ReanalysisCols,
             <<ReanalysisRow(Str(0), ReWindspeedLower - 1, WinddirUpper, ReTempUpper),
               ReanalysisRow(t, ReWindspeedUpper, WinddirUpper + 1, ReTempUpper),
               ReanalysisRow(Str(36), ReWindspeedUpper, WinddirUpper + 1,
                             ReTempUpper + 1)>>) :
        t \in {Str(1), Str(-1)}}

ReanalysisFaults ==
    {F_dup, F_gap, "flag_windspeed_range", "flag_winddir_range", "flag_temp_range",
     "flag_windspeed_unresponsive"}

ProductInput(df, product, tz, faults) ==
    [df |-> df, product |-> product, tz |-> tz, faults |-> faults]

ReanalysisInputs ==
    {ProductInput(df, "era5", tz, {}) : df \in ReanalysisKeyTables, tz \in TimeZones}
    \cup {ProductInput(df, "merra2", TzGood, {}) : df \in ReanalysisValueTables}
    \cup {ProductInput(DropCols(df, gone), "era5", tz, faults) :
            df \in ReanalysisFaultTables, gone \in NoneOrOne(ReanalysisCols),
            tz \in TimeZones, faults \in SUBSET ReanalysisFaults}

\* The flag columns the refiners append.
FlagCols ==
    {"flag_power_range", "flag_windspeed_range", "flag_temp_range",
     "flag_power_unresponsive", "flag_windspeed_unresponsive",
     "flag_energy_range", "flag_availability_range", "flag_curtailment_range",
     "flag_latitude_range", "flag_longitude_range", "flag_rated_power_range",
     "flag_winddir_range"}

-----------------------------------------------------------------------------
(* The state machine: a caller of refine.py.                               *)
(*   pc   : "idle", "returned" (a refiner has returned), "rerun" (it has   *)
(*          returned a second time, on its own output);                    *)
(*   call : the function called and its arguments;                         *)
(*   ret  : the value returned, None before;                               *)
(*   prev : the value the first call returned, once the caller reruns.     *)

Init ==
    /\ pc = "idle"
    /\ call = [fn |-> "none"]
    /\ ret = None
    /\ prev = None
    /\ dataframes = EmptyReport
    /\ qa_report = EmptyReport
    /\ pending = <<>>
    /\ held = EmptyReport
    /\ SESSION_STORE = EmptyReport
    /\ upload = None
    /\ response = None
    /\ issued = {}
    /\ running = {}

TimeIndexed ==
    {"refine_scada", "refine_meter", "refine_curtail", "refine_reanalysis"}

\* The time column and the identifier column a refiner passes to the library.
TimeCol(fn) == IF fn = "refine_scada" THEN "Date_time" ELSE "time"
IdCol(fn) == IF fn = "refine_scada" THEN "Wind_turbine_name" ELSE "time"

\* The refiner fn applied to an input.
Apply(fn, in) ==
    CASE fn = "refine_scada" -> RefineScada(in.df, in.tz, in.faults)
      [] fn = "refine_meter" -> RefineMeter(in.df, in.tz, in.faults)
      [] fn = "refine_curtail" -> RefineCurtail(in.df, in.tz, in.faults)
      [] fn = "refine_asset" -> RefineAsset(in.df, in.faults)
      [] fn = "refine_reanalysis" ->
            RefineReanalysis(in.df, in.product, in.tz, in.faults)

\* Python passes a table by reference: a refiner's parameter df names the
\* caller's object.  table is the caller's object, shared tells whether the
\* refiner's df still names it.
Passed(df) == [table |-> df, shared |-> TRUE]

\* A faulty CopyInput: the refiner goes on with the caller's object.
CopyInputMissing(obj) == obj

\* df = df.copy(): df names a new object.
CopyInput(obj) == [obj EXCEPT !.shared = FALSE]

\* A statement that writes the object df names (the datetime conversion,
\* df[fname] = ...) and leaves it as table t.
WriteInPlace(obj, t) == IF obj.shared THEN [obj EXCEPT !.table = t] ELSE obj

\* df = _drop_duplicates(df, time_col): df names the table returned.
Rebound(obj) == [obj EXCEPT !.shared = FALSE]

\* The caller's object when refiner fn returns the table out: copied,
\* converted in place, rebound by the duplicate removal (not in refine_asset),
\* flagged in place.
CallerAfter(fn, in, out) ==
    IF fn = "refine_asset"
    THEN WriteInPlace(CopyInput(Passed(in.df)), out)
    ELSE WriteInPlace(
             Rebound(WriteInPlace(CopyInput(Passed(in.df)),
                         ConvertStep(Work(in.df, EmptyReport), TimeCol(fn),
                                     in.tz).df)),
             out)

\* The caller has the call's value.
Returns(fn, in) ==
    /\ call' = [fn |-> fn, in |-> in]
    /\ ret' = Some(Apply(fn, in))
    /\ held' = ("df" :> CallerAfter(fn, in, Get(ret').df))
    /\ pc' = "returned"
    /\ UNCHANGED <<prev, dataframes, qa_report, pending>>
    /\ UNCHANGED appvars

CallRefineScada ==
    /\ pc = "idle"
    /\ \E in \in ScadaInputs : Returns("refine_scada", in)

CallRefineMeter ==
    /\ pc = "idle"
    /\ \E in \in MeterInputs : Returns("refine_meter", in)

CallRefineCurtail ==
    /\ pc = "idle"
    /\ \E in \in CurtailInputs : Returns("refine_curtail", in)

CallRefineAsset ==
    /\ pc = "idle"
    /\ \E in \in AssetInputs : Returns("refine_asset", in)

CallRefineReanalysis ==
    /\ pc = "idle"
    /\ \E in \in ReanalysisInputs : Returns("refine_reanalysis", in)

\* The caller feeds a refiner its own cleaned table, less the flag columns,
\* with the same arguments; the library calls that raised may raise again.
Rerun ==
    /\ pc = "returned"
    /\ call.fn \in {"refine_scada", "refine_meter", "refine_curtail",
                    "refine_asset", "refine_reanalysis"}
    /\ \E faults \in {call.in.faults, {}} :
          LET in == [call.in EXCEPT
                        !.df = DropCols(Get(ret).df, FlagCols \cap Get(ret).df.cols),
                        !.faults = faults]
          IN  /\ call' = [call EXCEPT !.in = in]
              /\ ret' = Some(Apply(call.fn, in))
              /\ held' = ("df" :> CallerAfter(call.fn, in, Get(ret').df))
    /\ prev' = ret
    /\ pc' = "rerun"
    /\ UNCHANGED <<dataframes, qa_report, pending>>
    /\ UNCHANGED appvars

\* refine_all's inputs: a SCADA table, optional meter, curtailment and asset
\* tables, an optional mapping (in its iteration order) from product names to
\* optional tables, and the library calls that raise, per dataset.
AllScadaTables ==
    {MkTable(ScadaCols,
             <<ScadaRow(Str(0), "T1", PowerLower - 1, WindspeedUpper, TempUpper),
               ScadaRow(Str(1), id, PowerUpper, WindspeedUpper + 1, TempUpper),
               ScadaRow(Str(6), "T2", PowerUpper, WindspeedUpper + 1, TempUpper + 1)>>) :
        id \in TurbineIds}

AllMeterTable ==
    MkTable(MeterCols,
            <<MeterRow(Str(0), EnergyLower - 1), MeterRow(Str(1), EnergyUpper),
              MeterRow(Str(6), EnergyUpper + 1)>>)

AllCurtailTable ==
    MkTable(CurtailCols,
            <<CurtailRow(Str(0), AvailLower - 1, CurtailUpper),
              CurtailRow(Str(0), AvailUpper, CurtailUpper + 1)>>)

AllAssetTable ==
    MkTable(AssetCols,
            <<AssetRow("T1", LatLower - 1, LonUpper, RatedPowerUpper + 1),
              AssetRow(NaN, LatUpper, LonUpper + 1, RatedPowerUpper)>>)

AllReanalysisTable(name) ==
    MkTable(ReanalysisCols,
            <<ReanalysisRow(Str(0), ReWindspeedLower - 1, WinddirUpper, ReTempUpper),
              ReanalysisRow(Str(IF name = "era5" THEN 1 ELSE 12), ReWindspeedUpper,
                            WinddirUpper + 1, ReTempUpper)>>)

Item(name, df) == [name |-> name, df |-> df]

\* The mappings over the product names, each product absent, None or a table.
ReanalysisMappings ==
    LET Val(n) == {None, Some(AllReanalysisTable(n))}
        One(n) == {<<Item(n, v)>> : v \in Val(n)}
        Two(n, m) == {<<Item(n, v), Item(m, u)>> : v \in Val(n), u \in Val(m)}
    IN  {<<>>}
        \cup UNION {One(n) : n \in ProductNames}
        \cup UNION {Two(nm[1], nm[2]) :
                      nm \in {x \in ProductNames \X ProductNames : x[1] # x[2]}}

NoFaults ==
    [scada |-> {}, meter |-> {}, curtail |-> {}, asset |-> {}, reanalysis |-> {}]

AllFaultChoices ==
    {NoFaults,
     [NoFaults EXCEPT !.scada = {"flag_temp_range"}],
     [scada |-> ScadaFaults, meter |-> MeterFaults, curtail |-> CurtailFaults,
      asset |-> AssetFaults, reanalysis |-> ReanalysisFaults]}

AllInputs ==
    [scada_df : AllScadaTables,
     local_tz : TimeZones,
     meter_df : {None, Some(AllMeterTable)},
     curtail_df : {None, Some(AllCurtailTable)},
     asset_df : {None, Some(AllAssetTable)},
     reanalysis_dfs : {None} \cup {Some(m) : m \in ReanalysisMappings},
     faults : AllFaultChoices]

\* The tables of an input of refine_all, by dataset and product name.
Supplied(in) ==
    LET m == IF IsNone(in.reanalysis_dfs) THEN <<>> ELSE Get(in.reanalysis_dfs)
        opt == [meter |-> in.meter_df, curtail |-> in.curtail_df,
                asset |-> in.asset_df]
    IN  ("scada" :> in.scada_df)
        @@ [k \in {x \in DOMAIN opt : ~IsNone(opt[x])} |-> Get(opt[k])]
        @@ [n \in {m[i].name : i \in {j \in 1..Len(m) : ~IsNone(m[j].df)}} |->
               Get(m[CHOOSE i \in 1..Len(m) :
                              m[i].name = n /\ ~IsNone(m[i].df)].df)]

\* refine_all is entered: dataframes, qa_report = {}, {}
CallRefineAll ==
    /\ pc = "idle"
    /\ \E in \in AllInputs :
          /\ call' = [fn |-> "refine_all", in |-> in]
          /\ held' = [k \in DOMAIN Supplied(in) |->
                         [table |-> Supplied(in)[k], shared |-> FALSE]]
    /\ dataframes' = EmptyReport
    /\ qa_report' = EmptyReport
    /\ pc' = "all_scada"
    /\ UNCHANGED <<ret, prev, pending>>
    /\ UNCHANGED appvars

\* A faulty Store: the refiners write into one report that refine_all hands
\* from one to the next, so a dataset's report also holds the SCADA keys.
StoreSharedReport(key, r) ==
    /\ dataframes' = Put(dataframes, key, Some(r.df))
    /\ qa_report' = Put(qa_report, key,
                        Some(IF Has(qa_report, "scada")
                             THEN r.report @@ Get(qa_report["scada"])
                             ELSE r.report))

\* dataframes[key], qa_report[key] = refiner(...)
Store(key, r) ==
    /\ dataframes' = Put(dataframes, key, Some(r.df))
    /\ qa_report' = Put(qa_report, key, Some(r.report))

\* A faulty StoreNone: only the table's entry is written.
StoreNoneTableOnly(key) ==
    /\ dataframes' = Put(dataframes, key, None)
    /\ qa_report' = qa_report

\* dataframes[key] = qa_report[key] = None
StoreNone(key) ==
    /\ dataframes' = Put(dataframes, key, None)
    /\ qa_report' = Put(qa_report, key, None)

\* SCADA (required)
AllScada ==
    /\ pc = "all_scada"
    /\ Store("scada",
             RefineScada(call.in.scada_df, call.in.local_tz, call.in.faults.scada))
    /\ held' = [held EXCEPT !["scada"] =
                    CallerAfter("refine_scada",
                        Input(call.in.scada_df, call.in.local_tz,
                              call.in.faults.scada),
                        Get(dataframes'["scada"]))]
    /\ pc' = "all_meter"
    /\ UNCHANGED <<call, ret, prev, pending>>
    /\ UNCHANGED appvars

\* Meter
AllMeter ==
    /\ pc = "all_meter"
    /\ IF ~IsNone(call.in.meter_df)
       THEN Store("meter", RefineMeter(Get(call.in.meter_df), call.in.local_tz,
                                       call.in.faults.meter))
       ELSE StoreNone("meter")
    /\ held' = IF IsNone(call.in.meter_df) THEN held
               ELSE [held EXCEPT !["meter"] =
                        CallerAfter("refine_meter",
                            Input(Get(call.in.meter_df), call.in.local_tz,
                                  call.in.faults.meter),
                            Get(dataframes'["meter"]))]
    /\ pc' = "all_curtail"
    /\ UNCHANGED <<call, ret, prev, pending>>
    /\ UNCHANGED appvars

\* Curtailment
AllCurtail ==
    /\ pc = "all_curtail"
    /\ IF ~IsNone(call.in.curtail_df)
       THEN Store("curtail", RefineCurtail(Get(call.in.curtail_df),
                                 call.in.local_tz, call.in.faults.curtail))
       ELSE StoreNone("curtail")
    /\ held' = IF IsNone(call.in.curtail_df) THEN held
               ELSE [held EXCEPT !["curtail"] =
                        CallerAfter("refine_curtail",
                            Input(Get(call.in.curtail_df), call.in.local_tz,
                                  call.in.faults.curtail),
                            Get(dataframes'["curtail"]))]
    /\ pc' = "all_asset"
    /\ UNCHANGED <<call, ret, prev, pending>>
    /\ UNCHANGED appvars

\* Asset
AllAsset ==
    /\ pc = "all_asset"
    /\ IF ~IsNone(call.in.asset_df)
       THEN Store("asset", RefineAsset(Get(call.in.asset_df), call.in.faults.asset))
       ELSE StoreNone("asset")
    /\ held' = IF IsNone(call.in.asset_df) THEN held
               ELSE [held EXCEPT !["asset"] =
                        CallerAfter("refine_asset",
                            Input(Get(call.in.asset_df), call.in.local_tz,
                                  call.in.faults.asset),
                            Get(dataframes'["asset"]))]
    /\ pc' = "all_reanalysis"
    /\ UNCHANGED <<call, ret, prev, pending>>
    /\ UNCHANGED appvars

\* dataframes["reanalysis"] = {}; qa_report["reanalysis"] = {};
\* if reanalysis_dfs: the loop is entered over its items.
AllReanalysis ==
    /\ pc = "all_reanalysis"
    /\ dataframes' = Put(dataframes, "reanalysis", EmptyReport)
    /\ qa_report' = Put(qa_report, "reanalysis", EmptyReport)
    /\ pending' = IF IsNone(call.in.reanalysis_dfs) THEN <<>>
                  ELSE Get(call.in.reanalysis_dfs)
    /\ pc' = "all_products"
    /\ UNCHANGED <<call, ret, prev, held>>
    /\ UNCHANGED appvars

\* A faulty AllProduct: the loop takes the products from the end of the mapping.
AllProductLastFirst ==
    /\ pc = "all_products"
    /\ pending # <<>>
    /\ LET name == pending[Len(pending)].name
           r_df == pending[Len(pending)].df
           r == RefineReanalysis(Get(r_df), name, call.in.local_tz,
                                 call.in.faults.reanalysis)
       IN  /\ dataframes' = [dataframes EXCEPT !["reanalysis"] =
                   Put(@, name, IF ~IsNone(r_df) THEN Some(r.df) ELSE None)]
           /\ qa_report' = [qa_report EXCEPT !["reanalysis"] =
                   Put(@, name, IF ~IsNone(r_df) THEN Some(r.report) ELSE None)]
    /\ pending' = SubSeq(pending, 1, Len(pending) - 1)
    /\ UNCHANGED <<pc, call, ret, prev, held>>
    /\ UNCHANGED appvars

\* One iteration of: for name, r_df in reanalysis_dfs.items()
AllProduct ==
    /\ pc = "all_products"
    /\ pending # <<>>
    /\ LET name == Head(pending).name
           r_df == Head(pending).df
           r == RefineReanalysis(Get(r_df), name, call.in.local_tz,
                                 call.in.faults.reanalysis)
       IN  /\ dataframes' = [dataframes EXCEPT !["reanalysis"] =
                   Put(@, name, IF ~IsNone(r_df) THEN Some(r.df) ELSE None)]
           /\ qa_report' = [qa_report EXCEPT !["reanalysis"] =
                   Put(@, name, IF ~IsNone(r_df) THEN Some(r.report) ELSE None)]
    /\ held' = IF IsNone(Head(pending).df) THEN held
               ELSE [held EXCEPT ![Head(pending).name] =
                        CallerAfter("refine_reanalysis",
                            ProductInput(Get(Head(pending).df), Head(pending).name,
                                call.in.local_tz, call.in.faults.reanalysis),
                            Get(dataframes'["reanalysis"][Head(pending).name]))]
    /\ pending' = Tail(pending)
    /\ UNCHANGED <<pc, call, ret, prev>>
    /\ UNCHANGED appvars

\* return {"dataframes": dataframes, "qa_report": qa_report}
AllReturn ==
    /\ pc = "all_products"
    /\ pending = <<>>
    /\ ret' = Some([dataframes |-> dataframes, qa_report |-> qa_report])
    /\ pc' = "all_done"
    /\ UNCHANGED <<call, prev, dataframes, qa_report, pending, held>>
    /\ UNCHANGED appvars

Next ==
    \/ CallRefineScada
    \/ CallRefineMeter
    \/ CallRefineCurtail
    \/ CallRefineAsset
    \/ CallRefineReanalysis
    \/ Rerun
    \/ CallRefineAll
    \/ AllScada
    \/ AllMeter
    \/ AllCurtail
    \/ AllAsset
    \/ AllReanalysis
    \/ AllProduct
    \/ AllReturn

Spec == Init /\ [][Next]_vars

-----------------------------------------------------------------------------
(* app.py: the upload handler and the session endpoints *)

\* Most sessions the store holds in the model.
MaxSessions == 2

\* The session identifiers: one more than the store can hold, so that some
\* identifier is always unknown.
SessionIds == 1..(MaxSessions + 1)

\* refine_all as a function of its arguments: the value AllReturn returns.
Part(r, part) == IF part = "dataframes" THEN r.df ELSE r.report

AllPart(in, part) ==
    LET m == IF IsNone(in.reanalysis_dfs) THEN <<>> ELSE Get(in.reanalysis_dfs)
        Of(n) == m[CHOOSE i \in 1..Len(m) : m[i].name = n].df
    IN  [scada |-> Some(Part(RefineScada(in.scada_df, in.local_tz,
                                         in.faults.scada), part)),
         meter |-> IF IsNone(in.meter_df) THEN None
                   ELSE Some(Part(RefineMeter(Get(in.meter_df), in.local_tz,
                                              in.faults.meter), part)),
         curtail |-> IF IsNone(in.curtail_df) THEN None
                     ELSE Some(Part(RefineCurtail(Get(in.curtail_df), in.local_tz,
                                                  in.faults.curtail), part)),
         asset |-> IF IsNone(in.asset_df) THEN None
                   ELSE Some(Part(RefineAsset(Get(in.asset_df), in.faults.asset),
                                  part)),
         reanalysis |->
             [n \in {m[i].name : i \in 1..Len(m)} |->
                 IF IsNone(Of(n)) THEN None
                 ELSE Some(Part(RefineReanalysis(Get(Of(n)), n, in.local_tz,
                                                 in.faults.reanalysis), part))]]

RefineAll(in) ==
    [dataframes |-> AllPart(in, "dataframes"), qa_report |-> AllPart(in, "qa_report")]

\* An uploaded file: whether pd.read_csv parses its bytes, and the table it
\* parses to.
File(parses, table) == [parses |-> parses, table |-> table]

BadFile == File(FALSE, MkTable({}, <<>>))

\* The file parameters of upload_and_refine, in the order step 1 parses them.
UploadKeys ==
    <<"scada", "meter", "tower", "curtail", "status", "asset", "reanalysis_era5",
      "reanalysis_merra2">>

NoFiles == [k \in {UploadKeys[i] : i \in 1..Len(UploadKeys)} |-> None]

\* What the library does with the data of a request: the PlantData
\* constructor raises, plant.validate raises, or both pass.
PlantOutcomes == {"raises", "invalid", "valid"}

\* A request to /upload-and-refine: its files, its local_tz form field, the
\* library calls that raise while its tables are refined, and what the
\* library makes of its data when the plant is built.
UploadRequest(files, tz, faults, plant) ==
    [files |-> files @@ NoFiles, local_tz |-> tz, faults |-> faults,
     plant |-> plant]

TowerTable == MkTable({"time"}, <<[time |-> Str(0)]>>)

GoodScada == Some(File(TRUE, ScadaScenario))

UploadRequests ==
    {UploadRequest("scada" :> GoodScada, TzGood, NoFaults, "valid"),
     UploadRequest([scada |-> GoodScada,
                    meter |-> Some(File(TRUE, AllMeterTable)),
                    tower |-> Some(File(TRUE, TowerTable)),
                    curtail |-> Some(File(TRUE, AllCurtailTable)),
                    asset |-> Some(File(TRUE, AllAssetTable)),
                    reanalysis_era5 |-> Some(File(TRUE, AllReanalysisTable("era5"))),
                    reanalysis_merra2 |->
                        Some(File(TRUE, AllReanalysisTable("merra2")))],
                   TzBad,
                   [scada |-> ScadaFaults, meter |-> MeterFaults,
                    curtail |-> CurtailFaults, asset |-> AssetFaults,
                    reanalysis |-> ReanalysisFaults],
                   "invalid"),
     UploadRequest([scada |-> GoodScada,
                    meter |-> Some(File(TRUE, AllMeterTable)),
                    reanalysis_merra2 |->
                        Some(File(TRUE, AllReanalysisTable("merra2")))],
                   TzGood, [NoFaults EXCEPT !.scada = {"flag_temp_range"}],
                   "raises"),
     UploadRequest("scada" :> Some(File(TRUE, MkTable(ScadaCols, <<>>))), TzGood,
                   NoFaults, "raises"),
     UploadRequest("scada" :> Some(BadFile), TzGood, NoFaults, "valid"),
     UploadRequest([scada |-> GoodScada, meter |-> Some(BadFile)], TzGood,
                   NoFaults, "valid"),
     UploadRequest([scada |-> GoodScada,
                    reanalysis_era5 |-> Some(File(TRUE, AllReanalysisTable("era5"))),
                    reanalysis_merra2 |-> Some(BadFile)],
                   TzGood, NoFaults, "valid")}

\* A faulty ParseRaises: a file that cannot be parsed is taken as an empty
\* table.
ParseRaisesNever(file) == FALSE

\* _parse_csv(file, key) raises HTTPException(400): pd.read_csv raised.
ParseRaises(file) == ~file.parses

\* _parse_csv(file, key) if file else None, for each file of step 1.
ParsedFiles(req) ==
    [k \in DOMAIN req.files |->
        IF IsNone(req.files[k]) THEN None ELSE Some(Get(req.files[k]).table)]

\* The position in UploadKeys of the first file whose parse raises, 0 if none.
FirstUnparsed(req) ==
    LET bad == {i \in 1..Len(UploadKeys) :
                   /\ ~IsNone(req.files[UploadKeys[i]])
                   /\ ParseRaises(Get(req.files[UploadKeys[i]]))}
    IN  IF bad = {} THEN 0 ELSE Min(bad)

\* reanalysis_dfs = {}; the parsed ERA5 and MERRA2 tables are added under
\* "era5" and "merra2" when not None.
ReanalysisDict(dfs) ==
    (IF IsNone(dfs["reanalysis_era5"]) THEN <<>>
     ELSE <<Item("era5", dfs["reanalysis_era5"])>>)
    \o (IF IsNone(dfs["reanalysis_merra2"]) THEN <<>>
        ELSE <<Item("merra2", dfs["reanalysis_merra2"])>>)

\* The arguments upload_and_refine passes to refine_all.
RefineArgs(req, dfs) ==
    [scada_df |-> Get(dfs["scada"]),
     local_tz |-> req.local_tz,
     meter_df |-> dfs["meter"],
     curtail_df |-> dfs["curtail"],
     asset_df |-> dfs["asset"],
     reanalysis_dfs |-> IF ReanalysisDict(dfs) = <<>> THEN None
                        ELSE Some(ReanalysisDict(dfs)),
     faults |-> req.faults]

\* A response to the client and what led to it: the request served, and the
\* value refine_all returned while it was served (None when it was not
\* called); for a session endpoint, whether the analysis was started.
Response(endpoint, status, body, request, refined, started) ==
    [endpoint |-> endpoint, status |-> status, body |-> body,
     request |-> request, refined |-> refined, started |-> started]

\* raise HTTPException(status_code, detail)
Detail(text) == [detail |-> text]

\* The tables upload_and_refine passes to plant_data: the UploadFile
\* parameters of the handler and the reanalysis_dfs dict of parsed tables.
Given(kind, value) == [kind |-> kind, value |-> value]

PlantArgs(req, dfs) ==
    [k \in {"scada", "meter", "tower", "curtail", "status", "asset"} |->
        IF IsNone(req.files[k]) THEN Given("None", None)
        ELSE Given("UploadFile", req.files[k])]
    @@ [reanalysis |-> Given("dict", ReanalysisDict(dfs))]

\* What plant_data returns: the PlantData object when plant.validate passes,
\* the exception plant.validate raised otherwise.
PlantData(args, outcome) ==
    IF outcome = "valid" THEN [type |-> "PlantData", args |-> args]
    ELSE [type |-> "Exception", args |-> args]

\* datasets_received of the upload response
DatasetsReceived(dfs) ==
    [scada |-> TRUE,
     meter |-> ~IsNone(dfs["meter"]),
     curtail |-> ~IsNone(dfs["curtail"]),
     asset |-> ~IsNone(dfs["asset"]),
     reanalysis_era5 |-> ~IsNone(dfs["reanalysis_era5"]),
     reanalysis_merra2 |-> ~IsNone(dfs["reanalysis_merra2"])]

\* upload_and_refine, step 1: the files of a request are parsed in the order
\* of UploadKeys; the first one that does not parse ends the request.
UploadParse ==
    /\ IsNone(upload)
    /\ Cardinality(DOMAIN SESSION_STORE) < MaxSessions
    /\ \E req \in UploadRequests :
          IF FirstUnparsed(req) # 0
          THEN /\ response' = Some(Response("upload-and-refine", 400,
                                       Detail(UploadKeys[FirstUnparsed(req)]),
                                       req, None, FALSE))
               /\ upload' = None
          ELSE /\ upload' = Some([req |-> req, stage |-> "refine",
                                  dfs |-> ParsedFiles(req), result |-> None])
               /\ response' = response
    /\ UNCHANGED <<SESSION_STORE, issued, running>>
    /\ UNCHANGED refinevars

\* upload_and_refine, step 2: result = refine_all(...)
UploadRefine ==
    /\ ~IsNone(upload)
    /\ Get(upload).stage = "refine"
    /\ upload' = Some([Get(upload) EXCEPT
                          !.stage = "plant",
                          !.result = Some(RefineAll(RefineArgs(Get(upload).req,
                                                               Get(upload).dfs)))])
    /\ UNCHANGED <<SESSION_STORE, response, issued, running>>
    /\ UNCHANGED refinevars

\* A faulty Uuid4: an identifier that may be in use.
Uuid4Reused == Min(SessionIds)

\* uuid.uuid4(): an identifier no session has; which one makes no difference
\* to the handlers, the model takes the least.
Uuid4 == Min(SessionIds \ DOMAIN SESSION_STORE)

\* upload_and_refine, step 3: plant_obj = plant_data(...); the session is
\* stored under a fresh uuid4 and the response is returned.
UploadPlantData ==
    /\ ~IsNone(upload)
    /\ Get(upload).stage = "plant"
    /\ LET session_id == Uuid4
           req == Get(upload).req
           dfs == Get(upload).dfs
           result == Get(Get(upload).result)
       IN  IF req.plant = "raises"
           THEN /\ response' = Some(Response("upload-and-refine", 500,
                                        Detail("PlantData construction failed"),
                                        req, Some(result), FALSE))
                /\ UNCHANGED <<SESSION_STORE, issued>>
           ELSE /\ SESSION_STORE' =
                       Put(SESSION_STORE, session_id,
                           [plant |-> PlantData(PlantArgs(req, dfs), req.plant),
                            reanalysis |-> result.dataframes.reanalysis])
                /\ response' = Some(Response("upload-and-refine", 200,
                                        [status |-> "success",
                                         session_id |-> session_id,
                                         plant |-> [local_tz |-> req.local_tz],
                                         datasets_received |-> DatasetsReceived(dfs),
                                         qa_report |-> result.qa_report],
                                        req, Some(result), FALSE))
                /\ issued' = issued \cup {session_id}
    /\ upload' = None
    /\ UNCHANGED running
    /\ UNCHANGED refinevars

\* _SESSION_STORE.get(session_id)
StoreGet(session_id) ==
    IF session_id \in DOMAIN SESSION_STORE THEN Some(SESSION_STORE[session_id])
    ELSE None

\* A faulty SessionMissing: _get_session returns what the store gave it.
SessionMissingNever(session) == FALSE

\* _get_session: if session is None: raise HTTPException(404)
SessionMissing(session) == IsNone(session)

\* session.get(key)
SessionField(session, key) ==
    IF ~IsNone(session) /\ Has(Get(session), key) THEN Some(Get(session)[key])
    ELSE None

SessionRequest(session_id) == [session_id |-> session_id]

NotFound(endpoint, session_id) ==
    Some(Response(endpoint, 404, Detail("Session not found"),
                  SessionRequest(session_id), None, FALSE))

\* The responses of an endpoint that looks the session up, runs its analysis
\* on the session's plant and returns the result or, when the analysis
\* raises, a 500.
Analysed(endpoint, session_id) ==
    IF SessionMissing(StoreGet(session_id)) THEN {NotFound(endpoint, session_id)}
    ELSE {Some(Response(endpoint, IF raised THEN 500 ELSE 200,
                   IF raised THEN Detail("analysis failed")
                   ELSE [status |-> "success"],
                   SessionRequest(session_id), None, TRUE)) : raised \in BOOLEAN}

\* run_monte_carlo up to the call of run_monte_carlo_analysis; the model has
\* one such call running at a time.
RunMonteCarlo ==
    /\ running = {}
    /\ \E session_id \in SessionIds :
          IF SessionMissing(StoreGet(session_id))
          THEN /\ response' = NotFound("run-monte-carlo", session_id)
               /\ running' = running
          ELSE /\ running' = running \cup {session_id}
               /\ response' = response
    /\ UNCHANGED <<SESSION_STORE, upload, issued>>
    /\ UNCHANGED refinevars

\* A faulty RunMonteCarloReturn: a session whose analysis raised is removed
\* from the store.
RunMonteCarloReturnEvicts ==
    /\ \E session_id \in running, raised \in BOOLEAN :
          /\ running' = running \ {session_id}
          /\ IF raised
             THEN /\ response' = Some(Response("run-monte-carlo", 500,
                                          Detail("Monte Carlo AEP analysis failed"),
                                          SessionRequest(session_id), None, TRUE))
                  /\ SESSION_STORE' =
                        [s \in DOMAIN SESSION_STORE \ {session_id} |->
                            SESSION_STORE[s]]
             ELSE /\ response' = Some(Response("run-monte-carlo", 200,
                                          [status |-> "success",
                                           aep_result |-> "aep_result"],
                                          SessionRequest(session_id), None, TRUE))
                  /\ SESSION_STORE' =
                        IF session_id \in DOMAIN SESSION_STORE
                        THEN [SESSION_STORE EXCEPT ![session_id] =
                                 Put(@, "monte_carlo_result", "aep_result")]
                        ELSE SESSION_STORE
    /\ UNCHANGED <<upload, issued>>
    /\ UNCHANGED refinevars

\* run_monte_carlo from the return of run_monte_carlo_analysis: the result is
\* cached in the session, or the analysis raised.
RunMonteCarloReturn ==
    /\ \E session_id \in running, raised \in BOOLEAN :
          /\ running' = running \ {session_id}
          /\ IF raised
             THEN /\ response' = Some(Response("run-monte-carlo", 500,
                                          Detail("Monte Carlo AEP analysis failed"),
                                          SessionRequest(session_id), None, TRUE))
                  /\ SESSION_STORE' = SESSION_STORE
             ELSE /\ response' = Some(Response("run-monte-carlo", 200,
                                          [status |-> "success",
                                           aep_result |-> "aep_result"],
                                          SessionRequest(session_id), None, TRUE))
                  /\ SESSION_STORE' =
                        IF session_id \in DOMAIN SESSION_STORE
                        THEN [SESSION_STORE EXCEPT ![session_id] =
                                 Put(@, "monte_carlo_result", "aep_result")]
                        ELSE SESSION_STORE
    /\ UNCHANGED <<upload, issued>>
    /\ UNCHANGED refinevars

\* run_electrical_losses
RunElectricalLosses ==
    /\ \E session_id \in SessionIds : response' \in Analysed("run-electrical-losses", session_id)
    /\ UNCHANGED <<SESSION_STORE, upload, issued, running>>
    /\ UNCHANGED refinevars

\* turbine_gross_energy
TurbineGrossEnergy ==
    /\ \E session_id \in SessionIds : response' \in Analysed("turbine-gross-energy", session_id)
    /\ UNCHANGED <<SESSION_STORE, upload, issued, running>>
    /\ UNCHANGED refinevars

\* run_wake_losses
RunWakeLosses ==
    /\ \E session_id \in SessionIds : response' \in Analysed("run-wake-losses", session_id)
    /\ UNCHANGED <<SESSION_STORE, upload, issued, running>>
    /\ UNCHANGED refinevars

\* static_yaw
StaticYaw ==
    /\ \E session_id \in SessionIds : response' \in Analysed("static-yaw", session_id)
    /\ UNCHANGED <<SESSION_STORE, upload, issued, running>>
    /\ UNCHANGED refinevars

\* GET /session/{session_id}
GetSessionInfo ==
    /\ \E session_id \in SessionIds :
          IF SessionMissing(StoreGet(session_id))
          THEN response' = NotFound("session", session_id)
          ELSE response' =
                  Some(Response("session", 200,
                           [session_id |-> session_id,
                            plant_info |-> SessionField(StoreGet(session_id),
                                                        "plant_info"),
                            qa_report |-> SessionField(StoreGet(session_id),
                                                       "qa_report"),
                            monte_carlo_result |->
                                SessionField(StoreGet(session_id),
                                             "monte_carlo_result"),
                            eya_gap_result |-> SessionField(StoreGet(session_id),
                                                            "eya_gap_result")],
                           SessionRequest(session_id), None, FALSE))
    /\ UNCHANGED <<SESSION_STORE, upload, issued, running>>
    /\ UNCHANGED refinevars

\* GET /health
Health ==
    /\ response' = Some(Response("health", 200,
                            [status |-> "ok",
                             active_sessions |-> Cardinality(DOMAIN SESSION_STORE)],
                            EmptyReport, None, FALSE))
    /\ UNCHANGED <<SESSION_STORE, upload, issued, running>>
    /\ UNCHANGED refinevars

AppNext ==
    \/ UploadParse
    \/ UploadRefine
    \/ UploadPlantData
    \/ RunMonteCarlo
    \/ RunMonteCarloReturn
    \/ RunElectricalLosses
    \/ TurbineGrossEnergy
    \/ RunWakeLosses
    \/ StaticYaw
    \/ GetSessionInfo
    \/ Health

\* The application serving requests; the refiners run inside UploadRefine.
AppSpec == Init /\ [][AppNext]_vars

-----------------------------------------------------------------------------
(* What the claims speak of *)

Refiners ==
    {"refine_scada", "refine_meter", "refine_curtail", "refine_asset",
     "refine_reanalysis"}

\* A refiner has returned from its first call.
Returned(fn) == pc = "returned" /\ call.fn = fn

InDf == call.in.df
OutDf == Get(ret).df
OutReport == Get(ret).report

\* The timestamp of an input row as the cleaned table carries it: parsed when
\* the conversion succeeded, as it was when not.
Normalized(t) == IF OutReport["datetime_converted"] THEN Parse(t) ELSE t

ScadaKey(row) == <<Normalized(row["Date_time"]), row["Wind_turbine_name"]>>
ScadaOutKey(row) == <<row["Date_time"], row["Wind_turbine_name"]>>
ScadaPayload(row) == <<row["P_avg"], row["Ws_avg"], row["Ot_avg"]>>

\* refine_scada has returned for a table with all its columns whose
\* timestamps it converted.
ScadaKeyed ==
    /\ Returned("refine_scada")
    /\ ScadaCols \subseteq InDf.cols
    /\ OutReport["datetime_converted"]

\* The last input row that carries the key of input row i.
LastOfKey(i) ==
    Max({j \in 1..NRows(InDf) : ScadaKey(InDf.rows[j]) = ScadaKey(InDf.rows[i])})

\* C1: when two rows of refine_scada's input share the (time, id) key and
\* differ in payload, the cleaned table holds exactly one row with that key,
\* and it carries the payload of the later row.
C1_DuplicateKeepsLater ==
    ScadaKeyed =>
        \A i \in 1..NRows(InDf) : \A j \in (i + 1)..NRows(InDf) :
            (/\ ScadaKey(InDf.rows[i]) = ScadaKey(InDf.rows[j])
             /\ ScadaPayload(InDf.rows[i]) # ScadaPayload(InDf.rows[j]))
            => LET hits == {k \in 1..NRows(OutDf) :
                               ScadaOutKey(OutDf.rows[k]) = ScadaKey(InDf.rows[i])}
               IN  /\ Cardinality(hits) = 1
                   /\ \A k \in hits :
                        ScadaPayload(OutDf.rows[k])
                            = ScadaPayload(InDf.rows[LastOfKey(i)])

\* C2: refine_scada removes a row only when a later row has the same
\* (time, id) key: a row whose key no later row has is in the cleaned table,
\* whatever other turbines report at its timestamp.
C2_OtherTurbinesKept ==
    ScadaKeyed =>
        \A i \in 1..NRows(InDf) :
            LastOfKey(i) = i
            => \E k \in 1..NRows(OutDf) :
                  /\ ScadaOutKey(OutDf.rows[k]) = ScadaKey(InDf.rows[i])
                  /\ ScadaPayload(OutDf.rows[k]) = ScadaPayload(InDf.rows[i])

\* A refiner has returned: from its first call or from its call on its own
\* output.
Done == pc \in {"returned", "rerun"}

Check(col, lower, upper, fname, countKey, errKey) ==
    [col |-> col, lower |-> lower, upper |-> upper, fname |-> fname,
     countKey |-> countKey, errKey |-> errKey]

\* The range checks of a refiner: column, bounds, flag column, report keys.
RangeChecks(fn) ==
    CASE fn = "refine_scada" ->
            {Check("P_avg", PowerLower, PowerUpper, "flag_power_range",
                   "range_flag_flag_power_range_count",
                   "range_flag_flag_power_range_error"),
             Check("Ws_avg", WindspeedLower, WindspeedUpper, "flag_windspeed_range",
                   "range_flag_flag_windspeed_range_count",
                   "range_flag_flag_windspeed_range_error"),
             Check("Ot_avg", TempLower, TempUpper, "flag_temp_range",
                   "range_flag_flag_temp_range_count",
                   "range_flag_flag_temp_range_error")}
      [] fn = "refine_meter" ->
            {Check("MMTR_SupWh", EnergyLower, EnergyUpper, "flag_energy_range",
                   "range_flag_energy_count", "range_flag_energy_error")}
      [] fn = "refine_curtail" ->
            {Check("IAVL_DnWh", AvailLower, AvailUpper, "flag_availability_range",
                   "flag_availability_range_count",
                   "flag_availability_range_error"),
             Check("IAVL_ExtPwrDnWh", CurtailLower, CurtailUpper,
                   "flag_curtailment_range", "flag_curtailment_range_count",
                   "flag_curtailment_range_error")}
      [] fn = "refine_asset" ->
            {Check("latitude", LatLower, LatUpper, "flag_latitude_range",
                   "flag_latitude_range_count", "flag_latitude_range_error"),
             Check("longitude", LonLower, LonUpper, "flag_longitude_range",
                   "flag_longitude_range_count", "flag_longitude_range_error"),
             Check("rated_power", RatedPowerLower, RatedPowerUpper,
                   "flag_rated_power_range", "flag_rated_power_range_count",
                   "flag_rated_power_range_error")}
      [] fn = "refine_reanalysis" ->
            {Check("WMETR_HorWdSpd", ReWindspeedLower, ReWindspeedUpper,
                   "flag_windspeed_range", "flag_windspeed_range_count",
                   "flag_windspeed_range_error"),
             Check("WMETR_HorWdDir", WinddirLower, WinddirUpper,
                   "flag_winddir_range", "flag_winddir_range_count",
                   "flag_winddir_range_error"),
             Check("WMETR_EnvTmp", ReTempLower, ReTempUpper, "flag_temp_range",
                   "flag_temp_range_count", "flag_temp_range_error")}

RunCheck(col, threshold, fname, countKey, errKey) ==
    [col |-> col, threshold |-> threshold, fname |-> fname,
     countKey |-> countKey, errKey |-> errKey]

\* The unresponsive checks of a refiner.
UnresponsiveChecks(fn) ==
    CASE fn = "refine_scada" ->
            {RunCheck("P_avg", UnresponsiveThreshold, "flag_power_unresponsive",
                    "unresponsive_flag_power_unresponsive_count",
                    "unresponsive_flag_power_unresponsive_error"),
             RunCheck("Ws_avg", UnresponsiveThreshold, "flag_windspeed_unresponsive",
                    "unresponsive_flag_windspeed_unresponsive_count",
                    "unresponsive_flag_windspeed_unresponsive_error")}
      [] fn = "refine_reanalysis" ->
            {RunCheck("WMETR_HorWdSpd", UnresponsiveThreshold,
                    "flag_windspeed_unresponsive", "unresponsive_windspeed_count",
                    "unresponsive_windspeed_error")}
      [] OTHER -> {}

\* The returned table without the flag columns the refiner appended.
Unflagged(df) == DropCols(df, FlagCols \cap df.cols)

\* C3: whenever a refiner has returned, whatever its input and whichever of
\* its steps raised, final_row_count in the report is the number of rows of
\* the returned table.
C3_FinalRowCount ==
    Done => OutReport["final_row_count"] = NRows(OutDf)

\* refine_scada has returned rows after dropping some, with a step that raised.
C3_Witness ==
    /\ Returned("refine_scada")
    /\ OutReport["rows_dropped_duplicates"] > 0
    /\ NRows(OutDf) > 0
    /\ Has(OutReport, "gap_check_error")

\* The flag column of check c marks exactly the rows outside [lower, upper],
\* and the report counts them.
FlagIsOutOfRange(c) ==
    /\ c.fname \in OutDf.cols
    /\ \A i \in 1..NRows(OutDf) :
          OutDf.rows[i][c.fname]
              = (OutDf.rows[i][c.col] < c.lower \/ OutDf.rows[i][c.col] > c.upper)
    /\ OutReport[c.countKey]
          = Cardinality({i \in 1..NRows(OutDf) : OutDf.rows[i][c.fname]})

\* C4: for every refiner and every range-checked column of its table whose
\* range-flag step did not raise, a row's flag is True exactly when its value
\* is below the lower or above the upper bound (False at either bound), and
\* the recorded count is the number of flagged rows.
C4_RangeFlag ==
    Done =>
        \A c \in RangeChecks(call.fn) :
            (c.col \in InDf.cols /\ c.fname \notin call.in.faults)
            => Has(OutReport, c.countKey) /\ FlagIsOutOfRange(c)

\* refine_scada has returned a table with a power at each bound, unflagged,
\* and one above the upper bound, flagged.
C4_Witness ==
    /\ Returned("refine_scada")
    /\ "flag_power_range" \in OutDf.cols
    /\ \E i, j, k \in 1..NRows(OutDf) :
          /\ OutDf.rows[i]["P_avg"] = PowerLower
          /\ ~OutDf.rows[i]["flag_power_range"]
          /\ OutDf.rows[j]["P_avg"] = PowerUpper
          /\ ~OutDf.rows[j]["flag_power_range"]
          /\ OutDf.rows[k]["P_avg"] = PowerUpper + 1
          /\ OutDf.rows[k]["flag_power_range"]
    /\ OutReport["range_flag_flag_power_range_count"] = 1

\* The length of the maximal run of identical consecutive values around
\* position i.
RunLength(data, i) ==
    LET Same(a, b) == \A k \in a..b : data[k] = data[i]
    IN  Max({e \in i..Len(data) : Same(i, e)})
            - Min({b \in 1..i : Same(b, i)}) + 1

\* C5: where refine_scada or refine_reanalysis applied the unresponsive flag
\* with threshold t, a row is flagged exactly when the maximal run of
\* identical values it belongs to has at least t members: every member of
\* such a run is flagged, no member of a shorter run is.
C5_UnresponsiveRuns ==
    Done =>
        \A c \in UnresponsiveChecks(call.fn) :
            (c.col \in InDf.cols /\ c.fname \notin call.in.faults)
            => /\ c.fname \in OutDf.cols
               /\ \A i \in 1..NRows(OutDf) :
                     OutDf.rows[i][c.fname]
                         = (RunLength(ColOf(OutDf, c.col), i) >= c.threshold)

\* refine_scada has returned five rows: a run of t - 1 equal powers, none
\* flagged, then a different power in a run of exactly t, all flagged.
C5_Witness ==
    /\ Returned("refine_scada")
    /\ "flag_power_unresponsive" \in OutDf.cols
    /\ NRows(OutDf) = 5
    /\ OutDf.rows[1]["P_avg"] = OutDf.rows[2]["P_avg"]
    /\ OutDf.rows[2]["P_avg"] # OutDf.rows[3]["P_avg"]
    /\ OutDf.rows[3]["P_avg"] = OutDf.rows[5]["P_avg"]
    /\ OutDf.rows[4]["P_avg"] = OutDf.rows[5]["P_avg"]
    /\ ColOf(OutDf, "flag_power_unresponsive") = <<FALSE, FALSE, TRUE, TRUE, TRUE>>

\* C6: a refiner run again on its own cleaned table, the flag columns
\* removed, drops no row, detects no duplicate and returns the rows of the
\* first run.
C6_Idempotent ==
    pc = "rerun" =>
        /\ Has(OutReport, "rows_dropped_duplicates")
              => OutReport["rows_dropped_duplicates"] = 0
        /\ Has(OutReport, "duplicate_original_count")
              => /\ OutReport["duplicate_original_count"] = 0
                 /\ OutReport["duplicate_utc_count"] = 0
        /\ Unflagged(OutDf) = Unflagged(Get(prev).df)

\* refine_scada has run again on the output of a run that converted the
\* timestamps and dropped rows.
C6_Witness ==
    /\ pc = "rerun"
    /\ call.fn = "refine_scada"
    /\ Get(prev).report["datetime_converted"]
    /\ Get(prev).report["rows_dropped_duplicates"] > 0
    /\ Has(OutReport, "duplicate_original_count")
    /\ NRows(OutDf) > 1

\* refine_all has returned after the temperature range flag of SCADA raised.
TempFails ==
    pc = "all_done" /\ "flag_temp_range" \in call.in.faults.scada

\* What refine_scada returns for refine_all's SCADA table when the
\* temperature range flag does not raise.
ScadaTempSucceeds ==
    RefineScada(call.in.scada_df, call.in.local_tz,
                call.in.faults.scada \ {"flag_temp_range"})

\* The report keys of duplicate resolution and gap detection.
IsolationKeys ==
    {"rows_dropped_duplicates", "time_gaps_original_count", "time_gaps_utc_count",
     "time_gap_timestamps_utc"}

\* Report a has key k exactly when report b has it, with the same value.
SameEntry(a, b, k) == Has(a, k) = Has(b, k) /\ (Has(a, k) => a[k] = b[k])

\* Flag fname is in table a exactly when it is in table b, with the same values.
SameFlag(a, b, fname) ==
    (fname \in a.cols) = (fname \in b.cols)
    /\ (fname \in a.cols => ColOf(a, fname) = ColOf(b, fname))

AllOut(key) == Get(ret).dataframes[key]
AllReport(key) == Get(ret).qa_report[key]

\* C7: when the temperature range flag of SCADA raises in refine_all, the
\* SCADA report records the failure and still holds rows_dropped_duplicates
\* and the gap results with the values they have when the flag succeeds, the
\* other SCADA flags are computed as they are then, and the meter and asset
\* datasets are refined as refine_meter and refine_asset refine them.
C7_PartialFailureIsolation ==
    TempFails =>
        /\ Has(Get(AllReport("scada")), "range_flag_flag_temp_range_error")
        /\ Has(Get(AllReport("scada")), "rows_dropped_duplicates")
        /\ \A k \in IsolationKeys :
              SameEntry(Get(AllReport("scada")), ScadaTempSucceeds.report, k)
        /\ \A c \in RangeChecks("refine_scada") :
              c.fname # "flag_temp_range"
              => /\ SameEntry(Get(AllReport("scada")), ScadaTempSucceeds.report,
                              c.countKey)
                 /\ SameFlag(Get(AllOut("scada")), ScadaTempSucceeds.df, c.fname)
        /\ \A c \in UnresponsiveChecks("refine_scada") :
              /\ SameEntry(Get(AllReport("scada")), ScadaTempSucceeds.report,
                           c.countKey)
              /\ SameFlag(Get(AllOut("scada")), ScadaTempSucceeds.df, c.fname)
        /\ ~IsNone(call.in.meter_df)
              => /\ AllOut("meter")
                       = Some(RefineMeter(Get(call.in.meter_df), call.in.local_tz,
                                          call.in.faults.meter).df)
                 /\ AllReport("meter")
                       = Some(RefineMeter(Get(call.in.meter_df), call.in.local_tz,
                                          call.in.faults.meter).report)
        /\ ~IsNone(call.in.asset_df)
              => /\ AllOut("asset")
                       = Some(RefineAsset(Get(call.in.asset_df),
                                          call.in.faults.asset).df)
                 /\ AllReport("asset")
                       = Some(RefineAsset(Get(call.in.asset_df),
                                          call.in.faults.asset).report)

\* refine_all has returned after only the temperature flag raised: SCADA
\* dropped a row and found gaps, the power flags are there, meter and asset
\* were refined.
C7_Witness ==
    /\ TempFails
    /\ call.in.faults.scada = {"flag_temp_range"}
    /\ Get(AllReport("scada"))["rows_dropped_duplicates"] = 1
    /\ Get(AllReport("scada"))["time_gaps_utc_count"] = 2
    /\ Has(Get(AllReport("scada")), "range_flag_flag_power_range_count")
    /\ "flag_temp_range" \notin Get(AllOut("scada")).cols
    /\ ~IsNone(AllReport("meter")) /\ ~IsNone(AllReport("asset"))
    /\ Has(Get(AllReport("meter")), "range_flag_energy_count")
    /\ Has(Get(AllReport("asset")), "flag_latitude_range_count")

\* A step is recorded: under its error key alone when it raised, under its
\* result key alone when it did not.
StepRecorded(failed, resultKey, errKey) ==
    IF failed
    THEN Has(OutReport, errKey) /\ ~Has(OutReport, resultKey)
    ELSE Has(OutReport, resultKey) /\ ~Has(OutReport, errKey)

\* C8: for every refiner and every set of its steps that raise, the refiner
\* returns a table and a report: each step that raised is recorded under its
\* error key, each step that ran without raising under its result key, and
\* final_row_count is present.
C8_StepFailuresRecorded ==
    Done =>
        /\ ~IsNone(ret)
        /\ Has(OutReport, "final_row_count")
        /\ call.fn \in TimeIndexed
              => /\ Has(OutReport, "datetime_converted")
                 /\ Has(OutReport, "rows_dropped_duplicates")
                 /\ Has(OutReport, "datetime_error")
                       = ConvertRaises(InDf, TimeCol(call.fn), call.in.tz)
                 /\ OutReport["datetime_converted"]
                       = ~ConvertRaises(InDf, TimeCol(call.fn), call.in.tz)
                 /\ StepRecorded(
                        \/ F_dup \in call.in.faults
                        \/ DupIdentRaises(InDf, TimeCol(call.fn), IdCol(call.fn)),
                        "duplicate_original_count", "duplicate_check_error")
                 /\ StepRecorded(
                        \/ F_gap \in call.in.faults
                        \/ GapIdentRaises(InDf, TimeCol(call.fn)),
                        "time_gaps_original_count", "gap_check_error")
        /\ \A c \in RangeChecks(call.fn) :
              c.col \in InDf.cols
              => StepRecorded(c.fname \in call.in.faults, c.countKey, c.errKey)
        /\ \A c \in UnresponsiveChecks(call.fn) :
              c.col \in InDf.cols
              => StepRecorded(c.fname \in call.in.faults, c.countKey, c.errKey)

\* refine_scada has returned with the conversion, the gap detection, one range
\* flag and one unresponsive flag raised and the other steps done.
C8_Witness ==
    /\ Returned("refine_scada")
    /\ Has(OutReport, "datetime_error")
    /\ Has(OutReport, "gap_check_error")
    /\ Has(OutReport, "range_flag_flag_power_range_error")
    /\ Has(OutReport, "unresponsive_flag_windspeed_unresponsive_error")
    /\ Has(OutReport, "duplicate_original_count")
    /\ Has(OutReport, "range_flag_flag_temp_range_count")
    /\ Has(OutReport, "unresponsive_flag_power_unresponsive_count")
    /\ Has(OutReport, "final_row_count")

\* C9: in a time-indexed refiner, when the timestamp conversion raises the
\* report has datetime_converted = False and a datetime_error message, the
\* table keeps its columns and its values as they were, and duplicate
\* resolution, gap detection and the flags run on that table; when the
\* conversion does not raise the report has datetime_converted = True and no
\* datetime_error.
C9_ConversionFailure ==
    (Done /\ call.fn \in TimeIndexed) =>
        IF ConvertRaises(InDf, TimeCol(call.fn), call.in.tz)
        THEN /\ OutReport["datetime_converted"] = FALSE
             /\ Has(OutReport, "datetime_error")
             /\ OutReport["datetime_error"] = ErrMsg
             /\ Unflagged(OutDf) = DropDuplicates(InDf, TimeCol(call.fn))
             /\ OutReport["rows_dropped_duplicates"]
                   = NRows(InDf) - NRows(OutDf)
             /\ Has(OutReport, "time_gaps_original_count")
                   \/ Has(OutReport, "gap_check_error")
             /\ \A c \in RangeChecks(call.fn) :
                   c.col \in InDf.cols
                   => Has(OutReport, c.countKey) \/ Has(OutReport, c.errKey)
             /\ \A c \in UnresponsiveChecks(call.fn) :
                   c.col \in InDf.cols
                   => Has(OutReport, c.countKey) \/ Has(OutReport, c.errKey)
        ELSE /\ OutReport["datetime_converted"] = TRUE
             /\ ~Has(OutReport, "datetime_error")
             /\ UtcCol(TimeCol(call.fn)) \in OutDf.cols

\* refine_scada has returned after the conversion raised: the timestamps are
\* the raw ones, a duplicate of them was dropped, a gap result and a flag are
\* recorded.
C9_Witness ==
    /\ Returned("refine_scada")
    /\ ScadaCols \subseteq InDf.cols
    /\ Has(OutReport, "datetime_error")
    /\ OutReport["rows_dropped_duplicates"] > 0
    /\ \A i \in 1..NRows(OutDf) : OutDf.rows[i]["Date_time"].kind = "str"
    /\ NRows(OutDf) > 1
    /\ Has(OutReport, "time_gaps_original_count")
    /\ Has(OutReport, "range_flag_flag_power_range_count")

AllKeys == {"scada", "meter", "curtail", "asset", "reanalysis"}

\* The optional table refine_all was given for a dataset.
InputOf(key) ==
    CASE key = "meter" -> call.in.meter_df
      [] key = "curtail" -> call.in.curtail_df
      [] key = "asset" -> call.in.asset_df

\* The items of the reanalysis mapping refine_all was given.
MappingItems ==
    IF IsNone(call.in.reanalysis_dfs) THEN {}
    ELSE {Get(call.in.reanalysis_dfs)[i] :
             i \in 1..Len(Get(call.in.reanalysis_dfs))}

\* C10: refine_all returns {"dataframes", "qa_report"}; both maps have the
\* keys scada, meter, curtail, asset and reanalysis; the entry of meter,
\* curtail and asset is None in both maps when that input was not supplied
\* and not None in both when it was; both reanalysis sub-maps have the
\* product names of the input mapping as keys, and a product's entry is None
\* in both exactly when its input table is None.
C10_ResultStructure ==
    pc = "all_done" =>
        /\ DOMAIN Get(ret) = {"dataframes", "qa_report"}
        /\ DOMAIN Get(ret).dataframes = AllKeys
        /\ DOMAIN Get(ret).qa_report = AllKeys
        /\ ~IsNone(AllOut("scada")) /\ ~IsNone(AllReport("scada"))
        /\ \A k \in {"meter", "curtail", "asset"} :
              /\ IsNone(AllOut(k)) = IsNone(InputOf(k))
              /\ IsNone(AllReport(k)) = IsNone(InputOf(k))
        /\ DOMAIN AllOut("reanalysis") = {m.name : m \in MappingItems}
        /\ DOMAIN AllReport("reanalysis") = {m.name : m \in MappingItems}
        /\ \A m \in MappingItems :
              /\ IsNone(AllOut("reanalysis")[m.name]) = IsNone(m.df)
              /\ IsNone(AllReport("reanalysis")[m.name]) = IsNone(m.df)

\* refine_all has returned for an input without a meter table, with an asset
\* table and with two products, one of them None.
C10_Witness ==
    /\ pc = "all_done"
    /\ IsNone(call.in.meter_df)
    /\ ~IsNone(call.in.asset_df)
    /\ IsNone(AllOut("meter")) /\ IsNone(AllReport("meter"))
    /\ ~IsNone(AllOut("asset")) /\ ~IsNone(AllReport("asset"))
    /\ DOMAIN AllReport("reanalysis") = ProductNames
    /\ IsNone(AllOut("reanalysis")["era5"])
    /\ ~IsNone(AllOut("reanalysis")["merra2"])

\* The control points of refine_all, in program order.
AllPcs ==
    {"all_scada", "all_meter", "all_curtail", "all_asset", "all_reanalysis",
     "all_products", "all_done"}

\* The datasets whose refiner has returned when refine_all is at control
\* point p, if the refiners run in the order SCADA, meter, curtailment, asset,
\* reanalysis.
StoredAt(p) ==
    CASE p = "all_scada" -> {}
      [] p = "all_meter" -> {"scada"}
      [] p = "all_curtail" -> {"scada", "meter"}
      [] p = "all_asset" -> {"scada", "meter", "curtail"}
      [] p = "all_reanalysis" -> {"scada", "meter", "curtail", "asset"}
      [] OTHER -> {"scada", "meter", "curtail", "asset", "reanalysis"}

\* The reanalysis mapping refine_all was given, in its iteration order.
Mapping ==
    IF IsNone(call.in.reanalysis_dfs) THEN <<>> ELSE Get(call.in.reanalysis_dfs)

\* C11: at every point of refine_all the datasets already refined are those
\* that precede the point in the order SCADA, meter, curtailment, asset,
\* reanalysis (a refiner ran only for a supplied table), and the products
\* already refined are a prefix of the mapping in its iteration order, the
\* remaining ones its suffix.
C11_RefinersInOrder ==
    pc \in AllPcs =>
        /\ DOMAIN dataframes = StoredAt(pc)
        /\ DOMAIN qa_report = StoredAt(pc)
        /\ \A k \in StoredAt(pc) \cap {"meter", "curtail", "asset"} :
              IsNone(qa_report[k]) = IsNone(InputOf(k))
        /\ pc \in {"all_products", "all_done"}
              => /\ Len(pending) <= Len(Mapping)
                 /\ pending = SubSeq(Mapping, Len(Mapping) - Len(pending) + 1,
                                     Len(Mapping))
                 /\ DOMAIN qa_report["reanalysis"]
                       = {Mapping[i].name : i \in 1..(Len(Mapping) - Len(pending))}
        /\ pc = "all_done" => pending = <<>>

\* refine_all is between the two products of a mapping that lists merra2
\* before era5: meter was not supplied, curtailment was, merra2 is done and
\* era5 is not.
C11_Witness ==
    /\ pc = "all_products"
    /\ Len(Mapping) = 2
    /\ Mapping[1].name = "merra2"
    /\ ~IsNone(Mapping[1].df)
    /\ Len(pending) = 1
    /\ DOMAIN qa_report["reanalysis"] = {"merra2"}
    /\ IsNone(qa_report["meter"])
    /\ ~IsNone(qa_report["curtail"])

\* The value of column c of an input row as the returned table should carry
\* it: the timestamp parsed when the conversion succeeded, any other value as
\* it was.
Carried(row, c) ==
    IF call.fn \in TimeIndexed /\ c = TimeCol(call.fn) THEN Normalized(row[c])
    ELSE row[c]

\* Returned row k carries input row i on every input column.
Carries(k, i) ==
    \A c \in InDf.cols : OutDf.rows[k][c] = Carried(InDf.rows[i], c)

\* Input rows i and j have the same duplicate key: the timestamp, with the
\* identifier in refine_scada; refine_asset has no key.
SameKey(i, j) ==
    /\ call.fn \in TimeIndexed
    /\ {TimeCol(call.fn), IdCol(call.fn)} \subseteq InDf.cols
    /\ \A c \in {TimeCol(call.fn), IdCol(call.fn)} :
          Carried(InDf.rows[i], c) = Carried(InDf.rows[j], c)

\* C12: a refiner keeps every input column, adds no row, leaves the values of
\* the surviving rows as they were, and an input row is missing from the
\* returned table only when it is a duplicate: a later row has its key.
C12_AdditiveOnly ==
    Done =>
        /\ InDf.cols \subseteq OutDf.cols
        /\ NRows(OutDf) <= NRows(InDf)
        /\ \A k \in 1..NRows(OutDf) : \E i \in 1..NRows(InDf) : Carries(k, i)
        /\ \A i \in 1..NRows(InDf) :
              \/ \E k \in 1..NRows(OutDf) : Carries(k, i)
              \/ \E j \in (i + 1)..NRows(InDf) : SameKey(i, j)

\* C14: whenever the gap detection of a time-indexed refiner succeeds and
\* finds a missing UTC timestamp, the report holds the list of the missing UTC
\* timestamps, one entry per gap counted.
C14_GapListRecorded ==
    (/\ Done
     /\ call.fn \in TimeIndexed
     /\ Has(OutReport, "time_gaps_utc_count")
     /\ OutReport["time_gaps_utc_count"] > 0)
    => /\ Has(OutReport, "time_gap_timestamps_utc")
       /\ Len(OutReport["time_gap_timestamps_utc"])
             = OutReport["time_gaps_utc_count"]

\* refine_scada has returned for the scenario table, with a valid time zone
\* and no library call raising.
ScenarioRun ==
    /\ Returned("refine_scada")
    /\ InDf = ScadaScenario
    /\ call.in.tz.valid
    /\ call.in.faults = {}

\* C18: for two rows of T1 at 09:00 (power 100, then 105) followed by a row
\* at 10:00, refine_scada at the 10-minute frequency returns exactly one row
\* at 09:00, its power is 105, rows_dropped_duplicates is 1 and
\* time_gaps_original_count is at least 2.
C18_Scenario ==
    ScenarioRun =>
        /\ Cardinality({k \in 1..NRows(OutDf) :
                           OutDf.rows[k]["Date_time"] = Dt(0)}) = 1
        /\ \A k \in 1..NRows(OutDf) :
              OutDf.rows[k]["Date_time"] = Dt(0) => OutDf.rows[k]["P_avg"] = 105
        /\ OutReport["rows_dropped_duplicates"] = 1
        /\ Has(OutReport, "time_gaps_original_count")
        /\ OutReport["time_gaps_original_count"] >= 2

\* The scenario has run: two rows are returned and the five timestamps from
\* 09:10 to 09:50 are counted as missing.
C18_Witness ==
    /\ ScenarioRun
    /\ NRows(OutDf) = 2
    /\ OutReport["time_gaps_original_count"] = 5

\* C13: when a refiner or refine_all returns (and at every point of
\* refine_all), each table the caller passed is the caller's object with the
\* rows, columns and values it had at the call, and no returned table is
\* that object.
C13_InputsUntouched ==
    /\ Done => held = ("df" :> [table |-> InDf, shared |-> FALSE])
    /\ pc \in AllPcs
          => /\ DOMAIN held = DOMAIN Supplied(call.in)
             /\ \A k \in DOMAIN held :
                   held[k] = [table |-> Supplied(call.in)[k], shared |-> FALSE]

\* refine_all has returned cleaned SCADA and asset tables that differ from
\* the tables passed, for an input that also supplies a reanalysis product.
C13_Witness ==
    /\ pc = "all_done"
    /\ Get(AllReport("scada"))["datetime_converted"]
    /\ Get(AllOut("scada")) # call.in.scada_df
    /\ ~IsNone(call.in.asset_df)
    /\ ~IsNone(AllOut("asset"))
    /\ Get(AllOut("asset")) # Get(call.in.asset_df)
    /\ "era5" \in DOMAIN held
    /\ held["scada"].table = call.in.scada_df

\* The last response is one of upload_and_refine.
UploadResponded ==
    ~IsNone(response) /\ Get(response).endpoint = "upload-and-refine"

\* C15: whenever refine_all has completed for an upload, the response of
\* upload_and_refine carries the qa_report that refine_all returned, unchanged,
\* whatever the report records and whatever a later step of the handler does.
C15_QaReportReturned ==
    (UploadResponded /\ ~IsNone(Get(response).refined))
        => /\ Has(Get(response).body, "qa_report")
           /\ Get(response).body["qa_report"] = Get(Get(response).refined).qa_report

\* C16: the plant stored in the session of an upload is built from the
\* cleaned tables refine_all returned for SCADA, meter, curtailment, asset and
\* reanalysis, never from the uploaded data.
C16_PlantFromCleaned ==
    (UploadResponded /\ Get(response).status = 200)
        => LET plant == SESSION_STORE[Get(response).body["session_id"]].plant
               cleaned == Get(Get(response).refined).dataframes
           IN  /\ \A k \in {"scada", "meter", "curtail", "asset"} :
                     /\ plant.args[k].kind # "UploadFile"
                     /\ ~IsNone(cleaned[k])
                            => plant.args[k] = Given("DataFrame", cleaned[k])
               /\ plant.args["reanalysis"].kind = "cleaned"
               /\ plant.args["reanalysis"].value = cleaned["reanalysis"]

\* A file of the request cannot be parsed.
Unparseable(req) ==
    \E k \in DOMAIN req.files :
        ~IsNone(req.files[k]) /\ ~Get(req.files[k]).parses

\* C19: a request with an uploaded CSV that cannot be parsed (the SCADA file
\* or any other) never gets past parsing: it is answered with an error,
\* refine_all is not called for it and no session is created.
C19_UnparseableRejected ==
    [][/\ ~IsNone(upload') => ~Unparseable(Get(upload').req)
       /\ (/\ response' # response
           /\ ~IsNone(response')
           /\ Get(response').endpoint = "upload-and-refine"
           /\ Unparseable(Get(response').request))
              => /\ Get(response').status = 400
                 /\ IsNone(Get(response').refined)
                 /\ SESSION_STORE' = SESSION_STORE
                 /\ issued' = issued]_vars

\* A request whose ERA5 file parses and whose MERRA2 file does not has been
\* answered with a 400, after another upload created a session.
C19_Witness ==
    /\ UploadResponded
    /\ Get(response).status = 400
    /\ Unparseable(Get(response).request)
    /\ Get(Get(response).request.files["scada"]).parses
    /\ IsNone(upload)
    /\ DOMAIN SESSION_STORE # {}

\* The endpoints that take a session id.
SessionEndpoints ==
    {"run-monte-carlo", "run-electrical-losses", "turbine-gross-energy",
     "run-wake-losses", "static-yaw", "session"}

\* C20: every endpoint that takes a session id, called with an id no upload
\* has returned, answers 404 before any analysis is started and leaves the
\* session store as it was.
C20_UnknownSession ==
    [][/\ running' \subseteq issued'
       /\ (/\ response' # response
           /\ ~IsNone(response')
           /\ Get(response').endpoint \in SessionEndpoints
           /\ Get(response').request.session_id \notin issued')
              => /\ Get(response').status = 404
                 /\ ~Get(response').started
                 /\ running' = running
                 /\ SESSION_STORE' = SESSION_STORE]_vars

\* run-monte-carlo has answered 404 to an id no upload returned while the
\* store holds a session.
C20_Witness ==
    /\ ~IsNone(response)
    /\ Get(response).endpoint = "run-monte-carlo"
    /\ Get(response).status = 404
    /\ Get(response).request.session_id \notin issued
    /\ issued # {}

\* The last response is that of a successful run-monte-carlo for session_id.
MonteCarloCached(session_id) ==
    /\ ~IsNone(response')
    /\ Get(response').endpoint = "run-monte-carlo"
    /\ Get(response').status = 200
    /\ Get(response').request.session_id = session_id

\* C21: sessions are independent under every interleaving of requests: a
\* step changes the entry of a session only when it is the return of a
\* run-monte-carlo for that session, and then only its monte_carlo_result;
\* an upload stores its session under an id no session has and no upload
\* has returned.
C21_SessionsIndependent ==
    [][/\ \A a \in DOMAIN SESSION_STORE :
             /\ a \in DOMAIN SESSION_STORE'
             /\ SESSION_STORE'[a].plant = SESSION_STORE[a].plant
             /\ SESSION_STORE'[a].reanalysis = SESSION_STORE[a].reanalysis
             /\ SESSION_STORE'[a] # SESSION_STORE[a] => MonteCarloCached(a)
       /\ \A b \in DOMAIN SESSION_STORE' \ DOMAIN SESSION_STORE :
             /\ b \notin issued
             /\ Get(response').endpoint = "upload-and-refine"
             /\ Get(response').body["session_id"] = b
       /\ issued' # issued
             => /\ Cardinality(issued') = Cardinality(issued) + 1
                /\ issued' \ issued = DOMAIN SESSION_STORE' \ DOMAIN SESSION_STORE]_vars

\* Two sessions of different uploads are stored, and a Monte Carlo analysis
\* for one of them has returned and is cached in that session only.
C21_Witness ==
    /\ Cardinality(DOMAIN SESSION_STORE) = 2
    /\ \E a, b \in DOMAIN SESSION_STORE :
          /\ a # b
          /\ SESSION_STORE[a].plant # SESSION_STORE[b].plant
          /\ ~Has(SESSION_STORE[a], "monte_carlo_result")
          /\ Has(SESSION_STORE[b], "monte_carlo_result")
          /\ ~IsNone(response)
          /\ Get(response).endpoint = "run-monte-carlo"
          /\ Get(response).status = 200
          /\ Get(response).request.session_id = b

\* C22: every entry of the session store holds under "plant" a PlantData
\* object that passed validation; an upload whose plant fails validation ends
\* in an error and creates no session.
C22_PlantValidated ==
    /\ \A s \in DOMAIN SESSION_STORE : SESSION_STORE[s].plant.type = "PlantData"
    /\ (UploadResponded /\ Get(response).request.plant = "invalid")
           => Get(response).status # 200

\* The request of the upload that created session s.
UploadOf(s) ==
    CHOOSE req \in UploadRequests :
        PlantArgs(req, ParsedFiles(req)) = SESSION_STORE[s].plant.args

\* C23: GET /session/S for a session an upload created returns the QA report
\* that upload produced and its plant metadata, and the result of a
\* successful run-monte-carlo for S once there was one.
C23_SessionInfo ==
    (/\ ~IsNone(response)
     /\ Get(response).endpoint = "session"
     /\ Get(response).status = 200)
        => LET s == Get(response).request.session_id
               body == Get(response).body
           IN  /\ Has(SESSION_STORE[s], "monte_carlo_result")
                      => body["monte_carlo_result"] = Some("aep_result")
               /\ body["qa_report"] =
                      Some(RefineAll(RefineArgs(UploadOf(s),
                                                ParsedFiles(UploadOf(s)))).qa_report)
               /\ body["plant_info"] = Some([local_tz |-> UploadOf(s).local_tz])

\* A file of the request parses to a table with zero rows.
EmptyUploaded(req) ==
    \E k \in DOMAIN req.files :
        /\ ~IsNone(req.files[k])
        /\ Get(req.files[k]).parses
        /\ NRows(Get(req.files[k]).table) = 0

\* C24: an upload with a CSV that parses to a table with zero rows is
\* rejected with a 422 before refinement: refine_all is never called for it.
C24_EmptyRejected ==
    /\ (~IsNone(upload) /\ Get(upload).stage = "plant")
           => ~EmptyUploaded(Get(upload).req)
    /\ (/\ UploadResponded
        /\ EmptyUploaded(Get(response).request)
        /\ ~Unparseable(Get(response).request))
           => /\ Get(response).status = 422
              /\ IsNone(Get(response).refined)

\* The freq a refiner passes to the gap detection.
FreqOf(fn) ==
    CASE fn = "refine_scada" -> ScadaFreq
      [] fn = "refine_meter" -> MeterFreq
      [] fn = "refine_curtail" -> CurtailFreq
      [] OTHER -> ReanalysisFreq

\* Exactly one of the two keys is in the returned report.
OneOf(countKey, errKey) == Has(OutReport, countKey) # Has(OutReport, errKey)

\* C25: a time-indexed refiner normalizes the time, then identifies and drops
\* the duplicates, then detects the gaps, then flags: the duplicates are
\* those of the normalized timestamps and are counted before they are
\* dropped, the gaps and every flag are those of the returned, de-duplicated
\* rows, and each step has left its result or its error in the report
\* whatever the steps before it recorded.
C25_StepOrder ==
    (Done /\ call.fn \in TimeIndexed /\ TimeCol(call.fn) \in InDf.cols)
        => LET tc == TimeCol(call.fn)
               keys == {Normalized(InDf.rows[i][tc]) : i \in 1..NRows(InDf)}
           IN  /\ Has(OutReport, "rows_dropped_duplicates")
               /\ OutReport["rows_dropped_duplicates"]
                      = NRows(InDf) - Cardinality(keys)
               /\ {OutDf.rows[i][tc] : i \in 1..NRows(OutDf)} = keys
               /\ OneOf("duplicate_original_count", "duplicate_check_error")
               /\ (/\ Has(OutReport, "duplicate_original_count")
                   /\ \E i, j \in 1..NRows(InDf) :
                         /\ i < j
                         /\ Normalized(InDf.rows[i][tc]) = Normalized(InDf.rows[j][tc])
                         /\ InDf.rows[i][IdCol(call.fn)] = InDf.rows[j][IdCol(call.fn)])
                      => OutReport["duplicate_original_count"] > 0
               /\ OneOf("time_gaps_original_count", "gap_check_error")
               /\ Has(OutReport, "time_gaps_original_count")
                      => OutReport["time_gaps_original_count"]
                             = Len(MissingInstants(ColOf(OutDf, tc), FreqOf(call.fn)))
               /\ \A c \in RangeChecks(call.fn) :
                     /\ c.col \in InDf.cols => OneOf(c.countKey, c.errKey)
                     /\ Has(OutReport, c.countKey)
                            => /\ ColOf(OutDf, c.fname)
                                      = RangeFlag(ColOf(OutDf, c.col), c.lower, c.upper)
                               /\ OutReport[c.countKey]
                                      = CountTrue(ColOf(OutDf, c.fname))
               /\ \A c \in UnresponsiveChecks(call.fn) :
                     /\ c.col \in InDf.cols => OneOf(c.countKey, c.errKey)
                     /\ Has(OutReport, c.countKey)
                            => /\ ColOf(OutDf, c.fname)
                                      = UnresponsiveFlag(ColOf(OutDf, c.col),
                                                         c.threshold)
                               /\ OutReport[c.countKey]
                                      = CountTrue(ColOf(OutDf, c.fname))

\* refine_scada has returned after the conversion raised: it dropped a row
\* all the same, flagged the rows left, and has the outcome of the duplicate
\* and of the gap step in its report.
C25_Witness ==
    /\ Returned("refine_scada")
    /\ Has(OutReport, "datetime_error")
    /\ OutReport["rows_dropped_duplicates"] > 0
    /\ Has(OutReport, "unresponsive_flag_power_unresponsive_count")
    /\ Has(OutReport, "range_flag_flag_power_range_count")
    /\ OneOf("duplicate_original_count", "duplicate_check_error")
    /\ OneOf("time_gaps_original_count", "gap_check_error")

\* What a refiner returns for the table of dataset key alone.
OwnResult(key) ==
    CASE key = "scada" ->
            RefineScada(call.in.scada_df, call.in.local_tz, call.in.faults.scada)
      [] key = "meter" ->
            RefineMeter(Get(call.in.meter_df), call.in.local_tz,
                        call.in.faults.meter)
      [] key = "curtail" ->
            RefineCurtail(Get(call.in.curtail_df), call.in.local_tz,
                          call.in.faults.curtail)
      [] OTHER -> RefineAsset(Get(call.in.asset_df), call.in.faults.asset)

\* C26: what refine_all returns for a dataset is what the dataset's refiner
\* makes of that dataset's table, the time zone and its own failing steps,
\* whatever the other datasets hold, record or whether they were supplied.
C26_OwnInputOnly ==
    pc = "all_done" =>
        /\ \A key \in {"scada", "meter", "curtail", "asset"} :
              (key = "scada" \/ ~IsNone(InputOf(key)))
                  => /\ AllOut(key) = Some(OwnResult(key).df)
                     /\ AllReport(key) = Some(OwnResult(key).report)
        /\ \A i \in 1..Len(Mapping) :
              ~IsNone(Mapping[i].df)
                  => /\ AllOut("reanalysis")[Mapping[i].name]
                            = Some(RefineReanalysis(Get(Mapping[i].df),
                                       Mapping[i].name, call.in.local_tz,
                                       call.in.faults.reanalysis).df)
                     /\ AllReport("reanalysis")[Mapping[i].name]
                            = Some(RefineReanalysis(Get(Mapping[i].df),
                                       Mapping[i].name, call.in.local_tz,
                                       call.in.faults.reanalysis).report)

\* refine_all has returned for an input that omits the meter table, whose
\* SCADA temperature check raised while no step of the curtailment refiner
\* did, and with two reanalysis products, one of them None.
C26_Witness ==
    /\ pc = "all_done"
    /\ IsNone(call.in.meter_df)
    /\ IsNone(AllOut("meter"))
    /\ call.in.faults.scada = {"flag_temp_range"}
    /\ call.in.faults.curtail = {}
    /\ ~IsNone(AllReport("curtail"))
    /\ Has(Get(AllReport("curtail")), "rows_dropped_duplicates")
    /\ \E k \in DOMAIN Get(AllReport("scada")) :
          k \notin DOMAIN Get(AllReport("curtail"))
    /\ Len(Mapping) = 2
    /\ \E i, j \in 1..2 : IsNone(Mapping[i].df) /\ ~IsNone(Mapping[j].df)

\* The input rows _drop_duplicates keeps: the last row of each normalized
\* timestamp, of each index label when the table has no time column.
LastOfItsKey ==
    LET tc == TimeCol(call.fn)
        Key(i) == IF tc \in InDf.cols THEN Normalized(InDf.rows[i][tc])
                  ELSE InDf.index[i]
    IN  {i \in 1..NRows(InDf) : ~\E j \in (i + 1)..NRows(InDf) : Key(j) = Key(i)}

\* C27: in every time-indexed refiner the duplicate removal completes: the
\* returned rows are the last input row of each timestamp when the table has
\* the time column, the last input row of each index label when it has not,
\* rows_dropped_duplicates is the number of the other rows, and a table
\* without a repeated key comes back whole with zero rows dropped.
C27_DuplicateKey ==
    (Done /\ call.fn \in TimeIndexed) =>
        /\ Has(OutReport, "rows_dropped_duplicates")
        /\ OutReport["rows_dropped_duplicates"]
               = NRows(InDf) - Cardinality(LastOfItsKey)
        /\ TimeCol(call.fn) \notin InDf.cols
              => OutDf.index = Pick(InDf.index, LastOfItsKey)
        /\ \A k \in 1..NRows(OutDf) :
              \E i \in LastOfItsKey :
                 /\ Cardinality({j \in LastOfItsKey : j <= i}) = k
                 /\ Carries(k, i)
        /\ LastOfItsKey = 1..NRows(InDf)
              => /\ OutReport["rows_dropped_duplicates"] = 0
                 /\ NRows(OutDf) = NRows(InDf)

\* refine_meter has returned for a table without the time column whose index
\* repeats a label: the first row of the repeated label was dropped.
C27_Witness ==
    /\ Done
    /\ call.fn = "refine_meter"
    /\ "time" \notin InDf.cols
    /\ InDf.index = <<Ix(0), Ix(1), Ix(0)>>
    /\ OutDf.index = <<Ix(1), Ix(0)>>
    /\ OutReport["rows_dropped_duplicates"] = 1

\* refine_meter has returned for a table with the time column, three
\* different timestamps and a repeated index label: no row was dropped.
C27_WitnessTimeColumn ==
    /\ Done
    /\ call.fn = "refine_meter"
    /\ "time" \in InDf.cols
    /\ InDf.index = <<Ix(0), Ix(1), Ix(0)>>
    /\ NRows(OutDf) = 3

\* The outcome of check c of the refiner that returned: skipped when its
\* column is not in the table, failed when the library call raised, and
\* otherwise flagged.
Skipped(c) ==
    /\ c.fname \notin OutDf.cols
    /\ ~Has(OutReport, c.countKey)
    /\ ~Has(OutReport, c.errKey)

Failed(c) ==
    /\ c.fname \notin OutDf.cols
    /\ ~Has(OutReport, c.countKey)
    /\ Has(OutReport, c.errKey)

Flagged(c) ==
    /\ c.fname \in OutDf.cols
    /\ Has(OutReport, c.countKey)
    /\ ~Has(OutReport, c.errKey)

\* C28: every range or unresponsive check of every refiner ends in one of
\* three ways: its column is absent, and the table has no flag column and the
\* report neither key of the check; the check raised, and the table has no
\* flag column and the report the error key alone; the check succeeded, and
\* the table has the flag column and the report the count key alone.
\* flag_columns_added of refine_scada lists, each once, the flag columns of
\* the returned table.
C28_CheckOutcomes ==
    Done =>
        /\ \A c \in RangeChecks(call.fn) \cup UnresponsiveChecks(call.fn) :
              IF c.col \notin InDf.cols THEN Skipped(c)
              ELSE IF c.fname \in call.in.faults THEN Failed(c)
              ELSE Flagged(c)
        /\ call.fn = "refine_scada"
              => LET added == OutReport["flag_columns_added"]
                 IN  /\ {added[i] : i \in 1..Len(added)} = OutDf.cols \cap FlagCols
                     /\ Cardinality(OutDf.cols \cap FlagCols) = Len(added)

\* refine_scada has returned for a table without the temperature column, the
\* power range check raised and the wind speed range check succeeded: the
\* list holds the wind speed flag and not the other two.
C28_Witness ==
    /\ Done
    /\ call.fn = "refine_scada"
    /\ "Ot_avg" \notin InDf.cols
    /\ Has(OutReport, "range_flag_flag_power_range_error")
    /\ "flag_windspeed_range" \in OutDf.cols
    /\ \E i \in 1..Len(OutReport["flag_columns_added"]) :
          OutReport["flag_columns_added"][i] = "flag_windspeed_range"
    /\ \A i \in 1..Len(OutReport["flag_columns_added"]) :
          OutReport["flag_columns_added"][i]
              \notin {"flag_power_range", "flag_temp_range"}

\* The returned rows read off the input from top to bottom: returned row k is
\* the first input row that carries it below the row read for k - 1; -1 from
\* the first returned row on that no input row below carries.
InInputOrder ==
    LET At[k \in 0..NRows(OutDf)] ==
            IF k = 0 THEN 0
            ELSE IF At[k - 1] = -1 THEN -1
            ELSE LET below == {i \in (At[k - 1] + 1)..NRows(InDf) : Carries(k, i)}
                 IN  IF below = {} THEN -1 ELSE Min(below)
    IN  At

\* C29: in every time-indexed refiner rows_dropped_duplicates is not negative,
\* it and final_row_count add up to the number of rows the refiner was given
\* (no step before the duplicate removal adds or removes a row), and the
\* returned rows are input rows in the order the input has them.
C29_RowAccounting ==
    (Done /\ call.fn \in TimeIndexed) =>
        /\ OutReport["rows_dropped_duplicates"] >= 0
        /\ OutReport["rows_dropped_duplicates"] + OutReport["final_row_count"]
               = NRows(InDf)
        /\ InInputOrder[NRows(OutDf)] # -1

\* refine_curtail has returned for three rows of which the first and the
\* last had the same timestamp: one row was dropped and the two returned are
\* the second and the third input row, in that order.
C29_Witness ==
    /\ Done
    /\ call.fn = "refine_curtail"
    /\ NRows(InDf) = 3
    /\ "time" \in InDf.cols
    /\ Normalized(InDf.rows[1]["time"]) = Normalized(InDf.rows[3]["time"])
    /\ Normalized(InDf.rows[1]["time"]) # Normalized(InDf.rows[2]["time"])
    /\ OutReport["rows_dropped_duplicates"] = 1
    /\ OutReport["final_row_count"] = 2
    /\ InInputOrder[1] = 2
    /\ InInputOrder[2] = 3

\* A response of GET /health.
HealthReport(r) == ~IsNone(r) /\ Get(r).endpoint = "health"

\* C30: no step removes a session or changes a session's plant or reanalysis
\* entry; a session is stored with the cleaned reanalysis tables refine_all
\* returned for its upload; a session endpoint called with an id an upload
\* has returned finds the session; and /health reports the number of stored
\* sessions, which is never below a number it reported before.
C30_StoreOnlyGrows ==
    [][/\ \A s \in issued :
             /\ s \in DOMAIN SESSION_STORE /\ s \in DOMAIN SESSION_STORE'
             /\ SESSION_STORE'[s].plant = SESSION_STORE[s].plant
             /\ SESSION_STORE'[s].reanalysis = SESSION_STORE[s].reanalysis
       /\ \A s \in issued' \ issued :
             /\ Get(response').body["session_id"] = s
             /\ SESSION_STORE'[s].reanalysis
                    = Get(Get(response').refined).dataframes.reanalysis
       /\ (/\ response' # response
           /\ ~IsNone(response')
           /\ Get(response').endpoint \in SessionEndpoints
           /\ Get(response').request.session_id \in issued)
              => Get(response').status # 404
       /\ Cardinality(DOMAIN SESSION_STORE') >= Cardinality(DOMAIN SESSION_STORE)
       /\ (HealthReport(response') /\ response' # response)
              => Get(response').body.active_sessions
                     = Cardinality(DOMAIN SESSION_STORE')
       /\ HealthReport(response)
              => Get(response).body.active_sessions
                     <= Cardinality(DOMAIN SESSION_STORE')]_vars

\* /health reports two sessions; one of them holds a cleaned reanalysis table
\* of its upload and the cached result of a Monte Carlo analysis run since.
C30_Witness ==
    /\ HealthReport(response)
    /\ Get(response).body.active_sessions = 2
    /\ issued = DOMAIN SESSION_STORE
    /\ \E s \in issued :
          /\ Has(SESSION_STORE[s], "monte_carlo_result")
          /\ \E n \in DOMAIN SESSION_STORE[s].reanalysis :
                ~IsNone(SESSION_STORE[s].reanalysis[n])

====
